---- MODULE Spec2Model ----
(***************************************************************************)
(* A model of the Unreal-TUI log viewer (src/src/main.rs): the tail worker *)
(* (spawn_tail), its line decoder, the line parser, the progress tracker,  *)
(* the consumer loop of main and the view state of App.                    *)
(*                                                                         *)
(* Text is modelled as a sequence of Unicode code points, a byte buffer as *)
(* a sequence of integers 0..255.  A Rust String is UTF-8: where the code  *)
(* mixes byte indices and char indices the model computes both.            *)
(***************************************************************************)
EXTENDS Integers, Sequences, FiniteSets, TLC

VARIABLES
    fs,     \* the file system: path -> file (existence, bytes, timestamps)
    tail,   \* the tail threads: session -> the locals of spawn_tail's closure
    chan,   \* the mpsc channels of each session
    app,    \* struct App and the position of main's loop
    hist,   \* history: what was written, fed, sent and appended so far
    dec     \* the decoder fed alone: input bytes, bytes fed, carry, lines out

vars == <<fs, tail, chan, app, hist, dec>>

(***************************************************************************)
(* Characters the code names.                                              *)
(***************************************************************************)
NL == 10
CR == 13
SPACE == 32
REPLACEMENT == 65533

\* Option<T>: None is the empty sequence, Some(x) the one-element sequence.
None == <<>>
Some(x) == <<x>>
is_some(o) == o # <<>>
unwrap(o) == o[1]
unwrap_or(o, d) == IF o = <<>> THEN d ELSE o[1]

Min(a, b) == IF a < b THEN a ELSE b
Max(a, b) == IF a > b THEN a ELSE b
SetMin(S) == CHOOSE x \in S : \A y \in S : x <= y

(***************************************************************************)
(* str helpers of the Rust standard library, as the code uses them.        *)
(***************************************************************************)

\* char::is_whitespace (Unicode White_Space) -- used by str::trim, trim_start.
is_whitespace(c) ==
    \/ c \in 9..13
    \/ c \in {32, 133, 160, 5760, 8232, 8233, 8239, 8287, 12288}
    \/ c \in 8192..8202

\* u8::is_ascii_whitespace: space, \t, \n, form feed, \r (not vertical tab).
is_ascii_whitespace(c) == c \in {32, 9, 10, 12, 13}

is_ascii_digit(c) == c \in 48..57

\* char::to_ascii_lowercase / str::to_ascii_lowercase
to_ascii_lowercase(s) ==
    [i \in 1..Len(s) |-> IF s[i] \in 65..90 THEN s[i] + 32 ELSE s[i]]

\* s[from..], from a 0-based char index
SliceFrom(s, from) == SubSeq(s, from + 1, Len(s))

\* s[from..to], 0-based, to exclusive
Slice(s, from, to) == SubSeq(s, from + 1, to)

\* str::find: the 0-based index of the first occurrence of key, or None.
find(hay, key) ==
    LET hits == {p \in 0..(Len(hay) - Len(key)) :
                    \A k \in 1..Len(key) : hay[p + k] = key[k]}
    IN  IF hits = {} THEN None ELSE Some(SetMin(hits))

contains(hay, key) == is_some(find(hay, key))

ends_with(s, c) == Len(s) > 0 /\ s[Len(s)] = c

\* str::trim_start
trim_start(s) ==
    LET keep == {p \in 1..Len(s) : ~is_whitespace(s[p])}
    IN  IF keep = {} THEN <<>> ELSE SubSeq(s, SetMin(keep), Len(s))

\* str::trim().is_empty()
trim_is_empty(s) == \A p \in 1..Len(s) : is_whitespace(s[p])

\* str::trim_start_matches(c)
trim_start_matches(s, c) ==
    LET keep == {p \in 1..Len(s) : s[p] # c}
    IN  IF keep = {} THEN <<>> ELSE SubSeq(s, SetMin(keep), Len(s))

\* str::split(c).collect::<Vec<_>>(): always at least one part.
split(s, c) ==
    LET seps == {p \in 1..Len(s) : s[p] = c}
        n    == Cardinality(seps)
        \* the k-th separator position, 0 before the first, Len(s)+1 after the last
        at(k) == IF k = 0 THEN 0
                 ELSE IF k = n + 1 THEN Len(s) + 1
                 ELSE CHOOSE p \in seps : Cardinality({q \in seps : q <= p}) = k
    IN  [k \in 1..(n + 1) |-> SubSeq(s, at(k - 1) + 1, at(k) - 1)]


(***************************************************************************)
(* String::from_utf8_lossy (line 673): every maximal invalid or truncated  *)
(* prefix of a UTF-8 sequence becomes one U+FFFD, valid sequences become   *)
(* their code point.                                                       *)
(***************************************************************************)
is_cont(b) == b \in 128..191

\* the range the second byte of a sequence led by b must lie in
second_ok(b, c) ==
    IF b = 224 THEN c \in 160..191
    ELSE IF b = 237 THEN c \in 128..159
    ELSE IF b = 240 THEN c \in 144..191
    ELSE IF b = 244 THEN c \in 128..143
    ELSE is_cont(c)

utf8_width(b) ==
    IF b < 128 THEN 1
    ELSE IF b \in 194..223 THEN 2
    ELSE IF b \in 224..239 THEN 3
    ELSE IF b \in 240..244 THEN 4
    ELSE 0

RECURSIVE lossy_from(_, _)
lossy_from(bytes, i) ==
    IF i > Len(bytes) THEN <<>>
    ELSE LET b == bytes[i]
             w == utf8_width(b)
             has(k) == i + k <= Len(bytes)
         IN  IF w = 1 THEN <<b>> \o lossy_from(bytes, i + 1)
             ELSE IF w = 0 THEN <<REPLACEMENT>> \o lossy_from(bytes, i + 1)
             ELSE IF ~(has(1) /\ second_ok(b, bytes[i + 1]))
                  THEN <<REPLACEMENT>> \o lossy_from(bytes, i + 1)
             ELSE IF w = 2
                  THEN <<(b - 192) * 64 + (bytes[i + 1] - 128)>>
                       \o lossy_from(bytes, i + 2)
             ELSE IF ~(has(2) /\ is_cont(bytes[i + 2]))
                  THEN <<REPLACEMENT>> \o lossy_from(bytes, i + 2)
             ELSE IF w = 3
                  THEN <<(b - 224) * 4096 + (bytes[i + 1] - 128) * 64
                         + (bytes[i + 2] - 128)>>
                       \o lossy_from(bytes, i + 3)
             ELSE IF ~(has(3) /\ is_cont(bytes[i + 3]))
                  THEN <<REPLACEMENT>> \o lossy_from(bytes, i + 3)
             ELSE <<(b - 240) * 262144 + (bytes[i + 1] - 128) * 4096
                    + (bytes[i + 2] - 128) * 64 + (bytes[i + 3] - 128)>>
                  \o lossy_from(bytes, i + 4)

from_utf8_lossy(bytes) == lossy_from(bytes, 1)

(***************************************************************************)
(* classify_line (lines 847-852) and parse_log_components (lines 877-918). *)
(***************************************************************************)
STR_error == <<101, 114, 114, 111, 114>>                 \* "error"
STR_warning == <<119, 97, 114, 110, 105, 110, 103>>      \* "warning"
CH_lbracket == <<91>>                                    \* "["
CH_rbracket == <<93>>                                    \* "]"
CH_colon == <<58>>                                       \* ":"

classify_line(s) ==
    LET l == to_ascii_lowercase(s)
    IN  IF contains(l, STR_error) THEN "Red"
        ELSE IF contains(l, STR_warning) THEN "Yellow"
        ELSE "White"

\* the closure skip_spaces (lines 884-888): 0-based index of the first
\* position >= i that holds no ASCII whitespace
skip_spaces(s, i) ==
    LET stop == {j \in i..Len(s) : j = Len(s) \/ ~is_ascii_whitespace(s[j + 1])}
    IN  IF i >= Len(s) THEN i ELSE SetMin(stop)

\* Returns <<ts, category, message>>.
parse_log_components(s) ==
    LET end  == find(s, CH_rbracket)
        has_ts == Len(s) > 0 /\ s[1] = 91 /\ is_some(end)
        ts   == IF has_ts THEN Some(Slice(s, 1, unwrap(end))) ELSE None
        pos1 == IF has_ts THEN skip_spaces(s, unwrap(end) + 1) ELSE 0
        end2rel == IF has_ts /\ pos1 < Len(s) /\ s[pos1 + 1] = 91
                   THEN find(SliceFrom(s, pos1), CH_rbracket) ELSE None
        pos  == IF is_some(end2rel)
                THEN skip_spaces(s, pos1 + unwrap(end2rel) + 1) ELSE pos1
        rest == trim_start(SliceFrom(s, pos))
        colon_idx == find(rest, CH_colon)
        left  == IF is_some(colon_idx) THEN Slice(rest, 0, unwrap(colon_idx)) ELSE <<>>
        right == IF is_some(colon_idx) THEN SliceFrom(rest, unwrap(colon_idx)) ELSE <<>>
        is_cat == is_some(colon_idx) /\ left # <<>> /\ ~contains(left, <<SPACE>>)
    IN  << ts,
           IF is_cat THEN Some(left) ELSE None,
           IF is_cat THEN trim_start(trim_start_matches(right, 58)) ELSE rest >>

\* struct LogLine (lines 56-65), built at line 685.  from is history: the
\* session whose worker sent the line (0 until it is sent).
LogLine(line) ==
    LET p == parse_log_components(line)
    IN  [text |-> line, color |-> classify_line(line),
         ts |-> p[1], category |-> p[2], message |-> p[3], from |-> 0]

(***************************************************************************)
(* The worker's decode step (lines 673-686): lossy decode of the chunk,    *)
(* append to carry, split on '\n', keep the trailing fragment as carry,    *)
(* strip one trailing '\r', drop blank lines, build a LogLine of the rest. *)
(***************************************************************************)
\* a decode step that leaves the '\r' before the newline in place
strip_cr_kept(line) == line

strip_cr(line) == IF ends_with(line, CR) THEN SubSeq(line, 1, Len(line) - 1) ELSE line

\* Returns [lines: the LogLines sent, in order; carry: the new carry].
decode_chunk(carry, buf) ==
    LET chunk  == from_utf8_lossy(buf)
        carry1 == carry \o chunk
        parts0 == split(carry1, NL)
        nl_end == ends_with(chunk, NL)
        parts  == IF nl_end THEN parts0 ELSE SubSeq(parts0, 1, Len(parts0) - 1)
        lines  == [k \in 1..Len(parts) |-> strip_cr(parts[k])]
        kept   == SelectSeq(lines, LAMBDA l : ~trim_is_empty(l))
    IN  [lines |-> [k \in 1..Len(kept) |-> LogLine(kept[k])],
         carry |-> IF nl_end THEN <<>> ELSE parts0[Len(parts0)]]

(***************************************************************************)
(* The progress tracker: parse_cook_progress_line (lines 857-875) and      *)
(* App::update_cook_state (lines 532-552).  A String is UTF-8, str::find   *)
(* and str::len count bytes, chars().nth counts chars and hay[j..] panics  *)
(* unless byte j is a char boundary.                                       *)
(***************************************************************************)
STR_cook_completed ==                                    \* "cook command completed"
    <<99, 111, 111, 107, 32, 99, 111, 109, 109, 97, 110, 100, 32,
      99, 111, 109, 112, 108, 101, 116, 101, 100>>
STR_cook_started ==                                      \* "cook command started"
    <<99, 111, 111, 107, 32, 99, 111, 109, 109, 97, 110, 100, 32,
      115, 116, 97, 114, 116, 101, 100>>
STR_cooked_packages ==                                   \* "cooked packages "
    <<99, 111, 111, 107, 101, 100, 32, 112, 97, 99, 107, 97, 103, 101, 115, 32>>
STR_packages_remain ==                                   \* "packages remain "
    <<112, 97, 99, 107, 97, 103, 101, 115, 32, 114, 101, 109, 97, 105, 110, 32>>
STR_total == <<116, 111, 116, 97, 108, 32>>              \* "total "

\* char::len_utf8
len_utf8(c) == IF c < 128 THEN 1 ELSE IF c < 2048 THEN 2 ELSE IF c < 65536 THEN 3 ELSE 4

\* the byte offset of the char at 0-based char index k (k = Len(s): s.len())
RECURSIVE byte_offset(_, _)
byte_offset(s, k) == IF k = 0 THEN 0 ELSE byte_offset(s, k - 1) + len_utf8(s[k])

\* digits.parse::<u64>().ok(): None beyond u64::MAX = 18446744073709551615.
\* Values are computed for up to 9 digits; 10 to 20 digits are not modelled.
RECURSIVE digits_value(_)
digits_value(d) ==
    IF d = <<>> THEN 0 ELSE digits_value(SubSeq(d, 1, Len(d) - 1)) * 10 + (d[Len(d)] - 48)

parse_u64(d) ==
    LET sig == trim_start_matches(d, 48)
    IN  IF Len(sig) > 20 THEN None ELSE Some(digits_value(sig))

\* line 866: the digits collected, parsed
parse_digits(digits) ==
    [panic |-> FALSE, val |-> IF digits = <<>> THEN None ELSE parse_u64(digits)]

\* line 865, take_while: rest up to the first of the positions nond that
\* hold no digit
take_digits(rest, nond) ==
    parse_digits(IF nond = {} THEN rest ELSE SubSeq(rest, 1, SetMin(nond) - 1))

\* line 865, hay[j..]: at is the set of char indices whose byte offset is
\* j; the slice panics when byte j is no char boundary
slice_digits(hay, at) ==
    IF at = {} THEN [panic |-> TRUE, val |-> None]
    ELSE take_digits(SliceFrom(hay, SetMin(at)),
                     {q \in 1..(Len(hay) - SetMin(at)) : ~is_ascii_digit(hay[SetMin(at) + q])})

\* line 863: j0 counts bytes, chars().nth(j) counts chars
skip_whitespace(hay, j0) ==
    SetMin({j \in j0..Max(j0, Len(hay)) : ~(j < Len(hay) /\ is_whitespace(hay[j + 1]))})

\* lines 861-866 with the key found at char index p
number_at(hay, j) ==
    slice_digits(hay, {k \in 0..Len(hay) : byte_offset(hay, k) = j})

\* lines 860 and 867 on p = hay.find(key)
number_after_hit(hay, key, p) ==
    IF ~is_some(p) THEN [panic |-> FALSE, val |-> None]
    ELSE number_at(hay, skip_whitespace(hay, byte_offset(hay, unwrap(p)) + Len(key)))

\* find_number_after (lines 859-868): [panic, val: Option<u64>]
find_number_after(hay, key) == number_after_hit(hay, key, find(hay, key))

\* lines 872-874 on the three results
cook_numbers(cooked, remain, total) ==
    IF cooked.panic \/ remain.panic \/ total.panic
    THEN [panic |-> TRUE, val |-> None]
    ELSE [panic |-> FALSE,
          val |-> IF is_some(cooked.val) \/ is_some(remain.val)
                  THEN Some(<<unwrap_or(cooked.val, 0), unwrap_or(remain.val, 0),
                              unwrap_or(total.val, 0)>>)
                  ELSE None]

\* lines 869-871 on l = s.to_ascii_lowercase()
cook_numbers_of(l) ==
    cook_numbers(find_number_after(l, STR_cooked_packages),
                 find_number_after(l, STR_packages_remain),
                 find_number_after(l, STR_total))

\* [panic, val: Option<<<cooked, remain, total>>>]
parse_cook_progress_line(s) == cook_numbers_of(to_ascii_lowercase(s))

\* lines 546-551 on r = parse_cook_progress_line(text); a.pc becomes
\* "panic" when the slice in find_number_after panics
apply_progress(a, r) ==
    IF r.panic THEN [a EXCEPT !.pc = "panic"]
    ELSE IF is_some(r.val)
    THEN [a EXCEPT !.cook_active = TRUE,
                   !.cook_cooked = unwrap(r.val)[1],
                   !.cook_remain = unwrap(r.val)[2],
                   !.cook_total = IF unwrap(r.val)[3] > 0 THEN unwrap(r.val)[3]
                                  ELSE unwrap(r.val)[1] + unwrap(r.val)[2]]
    ELSE a

\* mutant of cook_state_of: the started trigger is tried before the
\* completed trigger
cook_state_started_first(a, text, lower) ==
    IF contains(lower, STR_cook_started)
    THEN [a EXCEPT !.cook_active = TRUE, !.cook_cooked = 0,
                   !.cook_remain = 0, !.cook_total = 0]
    ELSE IF contains(lower, STR_cook_completed)
    THEN [a EXCEPT !.cook_active = FALSE]
    ELSE apply_progress(a, parse_cook_progress_line(text))

\* lines 533-545 on lower = text.to_ascii_lowercase()
cook_state_of(a, text, lower) ==
    IF contains(lower, STR_cook_completed)
    THEN [a EXCEPT !.cook_active = FALSE]
    ELSE IF contains(lower, STR_cook_started)
    THEN [a EXCEPT !.cook_active = TRUE, !.cook_cooked = 0,
                   !.cook_remain = 0, !.cook_total = 0]
    ELSE apply_progress(a, parse_cook_progress_line(text))

\* App::update_cook_state on the fields of a
update_cook_state(a, text) == cook_state_of(a, text, to_ascii_lowercase(text))

(***************************************************************************)
(* App::push_line (lines 512-530).                                         *)
(***************************************************************************)
CAP == 20000

\* mutant of evict_scroll: the scroll offset is left alone on eviction
evict_scroll_kept(scroll_from_bottom, overflow) == scroll_from_bottom

\* lines 524-526
evict_scroll(scroll_from_bottom, overflow) ==
    IF scroll_from_bottom > 0
    THEN Max(0, scroll_from_bottom - overflow)
    ELSE scroll_from_bottom

\* mutant of cap_lines: the newest lines are dropped, not the oldest
cap_lines_newest(lines) ==
    IF Len(lines) > CAP THEN SubSeq(lines, 1, CAP) ELSE lines

\* lines 520-522: drain(0..overflow)
cap_lines(lines) ==
    IF Len(lines) > CAP THEN SubSeq(lines, Len(lines) - CAP + 1, Len(lines)) ELSE lines

\* lines 517-527 on a1, the App after update_cook_state, and pushed, the
\* lines after line 517
push_onto(a1, pushed) ==
    IF a1.pc = "panic" THEN a1
    ELSE [a1 EXCEPT !.lines = cap_lines(pushed),
                    !.scroll_from_bottom =
                        IF Len(pushed) > CAP
                        THEN evict_scroll(@, Len(pushed) - CAP) ELSE @]

push_line(a, line) == push_onto(update_cook_state(a, line.text), Append(a.lines, line))

(***************************************************************************)
(* The decoder alone: one byte sequence, fed in non-empty chunks of any    *)
(* size through decode_chunk, exactly as successive reads feed it.         *)
(***************************************************************************)
MaxDecLen == 4
\* 'a', '\n', '\r', ' ', and the two bytes 0xC3 0xA9 of U+00E9
DecBytes == {97, NL, CR, SPACE, 195, 169}

SeqsUpTo(S, n) == UNION {[1..k -> S] : k \in 0..n}

Unused == <<>>

InitDecode ==
    /\ dec \in [bytes : SeqsUpTo(DecBytes, MaxDecLen), pos : {0},
                carry : {<<>>}, out : {<<>>}]
    /\ fs = Unused /\ tail = Unused /\ chan = Unused /\ app = Unused
    /\ hist = Unused

DecFeed ==
    \E n \in 1..(Len(dec.bytes) - dec.pos) :
        LET r == decode_chunk(dec.carry, SubSeq(dec.bytes, dec.pos + 1, dec.pos + n))
        IN  /\ dec' = [dec EXCEPT !.pos = @ + n, !.carry = r.carry,
                                  !.out = @ \o r.lines]
            /\ UNCHANGED <<fs, tail, chan, app, hist>>

NextDecode == DecFeed

SpecDecode == InitDecode /\ [][NextDecode]_vars

\* C1: once every chunk of the input has been fed, the lines emitted are the
\* lines that feeding the whole input as a single chunk emits, in order.
C1_ChunkingIndependent ==
    dec.pos = Len(dec.bytes) /\ dec.bytes # <<>>
        => dec.out = decode_chunk(<<>>, dec.bytes).lines

(***************************************************************************)
(* The file system the workers poll.  A file has bytes, a creation time    *)
(* and a modification time; every write stamps the clock's next value.     *)
(* fs.btime says whether the platform reports creation times at all        *)
(* (meta.created().ok() is None where it does not).                        *)
(***************************************************************************)
MaxFile == 3
MaxClock == 4
\* 'a' and '\n'
FileBytes == {97, NL}

\* Session 0 is the idle tail thread of App::new and its channels; the
\* sessions start_tail creates are numbered from 1.
Sessions == 1..2
Threads == {0} \cup Sessions

\* the process runs until main returns or panics; its threads die with it
Running == app.pc \notin {"exit", "panic"}

NoFile == [exists |-> FALSE, bytes |-> <<>>, created |-> 0, modified |-> 0]

\* the writer appends the bytes of one write call
FsWrite(p, bytes) ==
    /\ fs.clock < MaxClock
    /\ fs.file[p].exists
    /\ fs' = [fs EXCEPT !.clock = @ + 1,
                        !.file[p].bytes = @ \o bytes,
                        !.file[p].modified = fs.clock + 1]
    /\ UNCHANGED <<hist, tail, chan, app, dec>>

FsAppend(p) ==
    \E b \in FileBytes :
        /\ Len(fs.file[p].bytes) < MaxFile
        /\ FsWrite(p, <<b>>)

\* truncation in place to k bytes: the creation time stays
FsTruncate(p) ==
    \E k \in 0..(Len(fs.file[p].bytes) - 1) :
        /\ fs.clock < MaxClock
        /\ fs.file[p].exists
        /\ fs' = [fs EXCEPT !.clock = @ + 1,
                            !.file[p].bytes = SubSeq(@, 1, k),
                            !.file[p].modified = fs.clock + 1]
        /\ hist' = [hist EXCEPT !.grow_only[p] = FALSE,
                                !.mark = [s \in Sessions |->
                                    IF tail[s].path = p
                                    THEN [@[s] EXCEPT !.kind = "none"] ELSE @[s]]]
        /\ UNCHANGED <<tail, chan, app, dec>>

FsDelete(p) ==
    /\ fs.clock < MaxClock
    /\ fs.file[p].exists
    /\ fs' = [fs EXCEPT !.clock = @ + 1, !.file[p] = NoFile]
    /\ hist' = [hist EXCEPT !.grow_only[p] = FALSE,
                            !.mark = [s \in Sessions |->
                                IF tail[s].path = p
                                THEN [@[s] EXCEPT !.kind = "none"] ELSE @[s]]]
    /\ UNCHANGED <<tail, chan, app, dec>>

\* a new, empty file appears at the path
FsCreate(p) ==
    /\ fs.clock < MaxClock
    /\ ~fs.file[p].exists
    /\ fs' = [fs EXCEPT !.clock = @ + 1,
                        !.file[p] = [exists |-> TRUE, bytes |-> <<>>,
                                     created |-> fs.clock + 1,
                                     modified |-> fs.clock + 1]]
    /\ UNCHANGED <<hist, tail, chan, app, dec>>

\* the file's modification time is set to an earlier one (an older copy is
\* moved over it, or its times are set): bytes and creation time stay
FsBackdate(p) ==
    \E m \in 0..(fs.file[p].modified - 1) :
        /\ fs.clock < MaxClock
        /\ fs.file[p].exists
        /\ fs' = [fs EXCEPT !.clock = @ + 1, !.file[p].modified = m]
        /\ hist' = [hist EXCEPT !.grow_only[p] = FALSE,
                                !.mark = [s \in Sessions |->
                                    IF tail[s].path = p
                                    THEN [@[s] EXCEPT !.kind = "none"] ELSE @[s]]]
        /\ UNCHANGED <<tail, chan, app, dec>>

\* fs::metadata(&path): None when the file is absent
metadata(p) ==
    IF fs.file[p].exists
    THEN Some([len |-> Len(fs.file[p].bytes),
               created |-> IF fs.btime THEN Some(fs.file[p].created) ELSE None,
               modified |-> Some(fs.file[p].modified)])
    ELSE None

(***************************************************************************)
(* spawn_tail (lines 616-704): the thread of session s.  pc is its place:  *)
(* "none" not spawned, "spawn" before line 619, "cmd" at line 627 (the top *)
(* of the loop, after the sleep), "stat" at line 635, "read" at line 667.  *)
(* The loop has no exit.                                                   *)
(***************************************************************************)
NoTail == [pc |-> "none", path |-> <<>>, offset |-> 0, carry |-> <<>>,
           last_created |-> None, last_modified |-> None, to_read |-> 0]

NoMark == [kind |-> "none", at |-> 0, seen |-> FALSE]

\* enum AppEvent (lines 71-75)
LineEvent(l, s) == [type |-> "Line", line |-> [l EXCEPT !.from = s]]
TickEvent == [type |-> "Tick"]

\* tx.send(ev) for each ev of evs: queued while the receiver lives, else
\* the send fails and the failure is ignored (let _ =)
send_all(ch, evs) == IF ch.rx_open THEN [ch EXCEPT !.ev = @ \o evs] ELSE ch

\* a worker that starts at the beginning of the file, whatever it holds
start_offset_zero(m) == 0

\* line 619: the first offset, m being fs::metadata's result
start_offset(m) == IF is_some(m) THEN unwrap(m).len ELSE 0

\* line 619: start from EOF
WSpawn(s) ==
    /\ Running
    /\ tail[s].pc = "spawn"
    /\ LET m   == metadata(tail[s].path)
           off == start_offset(m)
       IN  /\ tail' = [tail EXCEPT ![s].pc = "cmd", ![s].offset = off]
           /\ hist' = [hist EXCEPT !.start[s] = off]
    /\ UNCHANGED <<fs, chan, app, dec>>

\* a Reset that leaves the offset where it was
reset_offset_kept(offset, m) == offset

\* lines 628-630: the offset after Cmd::Clear, m being fs::metadata's result
reset_offset(offset, m) == IF is_some(m) THEN unwrap(m).len ELSE offset

\* lines 627-632: at most one pending command.  The history starts afresh
\* at a Reset: the file's length at that moment, nothing fed since.
WCmd(s) ==
    /\ Running
    /\ tail[s].pc = "cmd"
    /\ IF chan[s].cmd # <<>>
       THEN LET p == tail[s].path
                m == metadata(p)
            IN  /\ tail' = [tail EXCEPT ![s].pc = "stat",
                               ![s].offset = reset_offset(@, m),
                               ![s].carry = <<>>]
                /\ chan' = [chan EXCEPT ![s].cmd = Tail(@)]
                /\ hist' = [hist EXCEPT
                       !.reset[s] = TRUE,
                       !.grow_only[p] = fs.file[p].exists,
                       !.start[s] = IF fs.file[p].exists
                                    THEN Len(fs.file[p].bytes) ELSE tail[s].offset,
                       !.fed[s] = <<>>,
                       !.mark[s] = [kind |-> "reset", at |-> Len(hist.sent[s]),
                                    seen |-> TRUE]]
       ELSE /\ tail' = [tail EXCEPT ![s].pc = "stat"]
            /\ UNCHANGED <<chan, hist>>
    /\ UNCHANGED <<fs, app, dec>>

\* a rotation check that looks at the creation time only
rotate_offset_created_only(offset, recreated, mod_time_backwards) ==
    IF recreated THEN 0 ELSE offset

\* lines 653-656
rotate_offset(offset, recreated, mod_time_backwards) ==
    IF recreated \/ mod_time_backwards THEN 0 ELSE offset

rotate_carry(carry, recreated, mod_time_backwards) ==
    IF recreated \/ mod_time_backwards THEN <<>> ELSE carry

\* line 663: [offset, carry] once the length is known
truncate_reset(offset, carry, len) ==
    [offset |-> IF offset > len THEN 0 ELSE offset, carry |-> carry]

\* lines 635-665 and 694-698
WStat(s) ==
    /\ Running
    /\ tail[s].pc = "stat"
    /\ LET t == tail[s]
           m == metadata(t.path)
       IN  IF ~is_some(m)
           THEN /\ tail' = [tail EXCEPT ![s].pc = "cmd",
                                        ![s].last_created = None,
                                        ![s].last_modified = None]
                /\ hist' = [hist EXCEPT !.mark[s] =
                               [kind |-> "vanish", at |-> Len(hist.sent[s]),
                                seen |-> FALSE]]
           ELSE LET meta == unwrap(m)
                    recreated ==
                        /\ is_some(t.last_created) /\ is_some(meta.created)
                        /\ unwrap(meta.created) # unwrap(t.last_created)
                    mod_time_backwards ==
                        /\ is_some(t.last_modified) /\ is_some(meta.modified)
                        /\ unwrap(meta.modified) < unwrap(t.last_modified)
                    off1 == rotate_offset(t.offset, recreated, mod_time_backwards)
                    car1 == rotate_carry(t.carry, recreated, mod_time_backwards)
                    r    == truncate_reset(off1, car1, meta.len)
                IN  /\ tail' = [tail EXCEPT
                           ![s].offset = r.offset,
                           ![s].carry = r.carry,
                           ![s].last_created =
                               IF is_some(meta.created) THEN meta.created ELSE @,
                           ![s].last_modified =
                               IF is_some(meta.modified) THEN meta.modified ELSE @,
                           ![s].to_read = IF meta.len > r.offset
                                          THEN meta.len - r.offset ELSE 0,
                           ![s].pc = IF meta.len > r.offset THEN "read" ELSE "cmd"]
                    /\ hist' = [hist EXCEPT !.mark[s] =
                           IF t.offset > meta.len
                           THEN [kind |-> "trunc", at |-> Len(hist.sent[s]),
                                 seen |-> TRUE]
                           ELSE IF recreated \/ mod_time_backwards
                           THEN [@ EXCEPT !.kind = "rotate"]
                           ELSE [@ EXCEPT !.seen = TRUE]]
    /\ UNCHANGED <<fs, chan, app, dec>>

\* mutant of advance: the offset moves by the bytes asked for, not by the
\* bytes read
advance_by_request(offset, n, to_read) == offset + to_read

\* line 672: the offset after a read of n bytes
advance(offset, n, to_read) == offset + n

\* lines 667-687 with Ok(n), n > 0: a read returns at most to_read bytes and
\* at most what the file holds beyond offset, possibly fewer
WReadOk(s) ==
    /\ Running
    /\ tail[s].pc = "read"
    /\ fs.file[tail[s].path].exists
    /\ LET t     == tail[s]
           bytes == fs.file[t.path].bytes
       IN  \E n \in 1..Min(t.to_read, Len(bytes) - t.offset) :
              LET buf == SubSeq(bytes, t.offset + 1, t.offset + n)
                  r   == decode_chunk(t.carry, buf)
                  evs == [k \in 1..Len(r.lines) |-> LineEvent(r.lines[k], s)]
              IN  /\ tail' = [tail EXCEPT ![s].pc = "cmd",
                                 ![s].offset = advance(t.offset, n, t.to_read),
                                 ![s].carry = r.carry,
                                 ![s].to_read = 0]
                  /\ chan' = [chan EXCEPT ![s] = send_all(@, evs)]
                  /\ hist' = [hist EXCEPT !.fed[s] = @ \o buf,
                                          !.sent[s] = @ \o r.lines]
    /\ UNCHANGED <<fs, app, dec>>

\* mutant of WReadFail: a failed read still moves the offset past the bytes
\* it asked for
WReadFail_skipping(s) ==
    /\ Running
    /\ tail[s].pc = "read"
    /\ tail' = [tail EXCEPT ![s].pc = "cmd", ![s].to_read = 0,
                            ![s].offset = @ + tail[s].to_read]
    /\ UNCHANGED <<fs, chan, app, hist, dec>>

\* lines 667-691 otherwise: open, seek or read fails, or the read returns 0
\* bytes; nothing is changed and the loop goes on
WReadFail(s) ==
    /\ Running
    /\ tail[s].pc = "read"
    /\ tail' = [tail EXCEPT ![s].pc = "cmd", ![s].to_read = 0]
    /\ UNCHANGED <<fs, chan, app, hist, dec>>

(***************************************************************************)
(* The configuration (struct Config): projects name a .uproject path,      *)
(* builds an .exe path.  A path is what the derivations look at: its       *)
(* parent() and its file_stem(), each an Option.  The second project's     *)
(* path is one whose file_stem() is None (a path ending in "..").          *)
(***************************************************************************)
cfg ==
    [projects |-> << [key |-> "game", name |-> "",
                      uproject |-> [parent |-> Some("Proj"), file_stem |-> Some("Game")]],
                     [key |-> "bad", name |-> "Bad",
                      uproject |-> [parent |-> Some(""), file_stem |-> None]] >>,
     builds   |-> << [key |-> "shipping", name |-> "Shipping",
                      exe |-> [parent |-> Some("Build"), file_stem |-> Some("Game")]] >>]

\* PathBuf::join, one component at a time; a path is the tuple of its parts
join(dir, parts) == <<dir>> \o parts

\* Result<PathBuf>: [ok, path]
log_path_from_uproject(uproject) ==
    IF ~is_some(uproject.parent) \/ ~is_some(uproject.file_stem)
    THEN [ok |-> FALSE, path |-> <<>>]
    ELSE [ok |-> TRUE,
          path |-> join(unwrap(uproject.parent),
                        <<"Saved", "Logs", unwrap(uproject.file_stem), ".log">>)]

log_path_from_exe(exe) ==
    IF ~is_some(exe.parent) \/ ~is_some(exe.file_stem)
    THEN [ok |-> FALSE, path |-> <<>>]
    ELSE [ok |-> TRUE,
          path |-> join(unwrap(exe.parent),
                        <<unwrap(exe.file_stem), "Saved", "Logs",
                          unwrap(exe.file_stem), ".log">>)]

\* the names of the configuration hold no whitespace, so trim() leaves them
name_or_key(t) == IF t.name = "" THEN t.key ELSE t.name

(***************************************************************************)
(* struct App.  rx and tx_cmd hold the number of the session whose event   *)
(* queue the consumer drains and whose command queue it writes.  pc is the *)
(* place of the main thread: "loop" while the main loop runs, "exit" once   *)
(* main has returned, "panic" once it has panicked.                        *)
(***************************************************************************)
\* ratatui's Rect, as App::new builds it (line 201)
Rect(x, y, width, height) == [x |-> x, y |-> y, width |-> width, height |-> height]

AppNew ==
    [mode |-> "Select", selected |-> 0,
     current_name |-> None, current_is_build |-> FALSE,
     lines |-> <<>>, scroll_from_bottom |-> 0, last_error |-> None,
     show_timestamp |-> FALSE, wrap_lines |-> TRUE,
     active_category_filter |-> None, show_help |-> FALSE,
     cook_active |-> FALSE, cook_cooked |-> 0, cook_remain |-> 0, cook_total |-> 0,
     rx |-> 0, tx_cmd |-> 0,
     last_body_area |-> Rect(0, 0, 0, 0),
     pc |-> "loop", result |-> "Continue", nsess |-> 0]

\* a scroll_up without the cap at the number of lines
scroll_up_uncapped(a, n) == [a EXCEPT !.scroll_from_bottom = @ + n]

scroll_up(a, n) ==
    [a EXCEPT !.scroll_from_bottom = Min(@ + n, Len(a.lines))]

\* saturating_sub
scroll_down(a, n) ==
    [a EXCEPT !.scroll_from_bottom = IF @ > n THEN @ - n ELSE 0]

\* mutant of swap_rx: once a session's queue is held, the consumer keeps it
swap_rx_kept(old, new) == IF old = 0 THEN new ELSE old

\* line 577: the receiver the consumer drains from now on
swap_rx(old, new) == new

\* lines 562-570 and 577-578: the fields start_tail sets; new is the number
\* of the session whose channels lines 573-574 create
start_tail(a, display_name, log_path, new) ==
    [a EXCEPT !.current_name = Some(display_name),
              !.lines = <<>>,
              !.scroll_from_bottom = 0,
              !.last_error = Some(<<"Watching: ", log_path>>),
              !.cook_active = FALSE,
              !.cook_cooked = 0, !.cook_remain = 0, !.cook_total = 0,
              !.rx = swap_rx(@, new),
              !.tx_cmd = new,
              !.nsess = new]

\* lines 292-297: the lines that pass the category filter
filtered(a) ==
    IF is_some(a.active_category_filter)
    THEN SelectSeq(a.lines, LAMBDA l : l.category = a.active_category_filter)
    ELSE a.lines

\* a slice that is always taken at the bottom
visible_slice_unscrolled(a, h) ==
    SubSeq(filtered(a), Max(0, Len(filtered(a)) - h) + 1, Len(filtered(a)))

\* lines 299-303: the slice draw shows in a body of height h
visible_slice(a, h) ==
    LET total == Len(filtered(a))
        end   == IF total > a.scroll_from_bottom THEN total - a.scroll_from_bottom ELSE 0
        start == IF end > h THEN end - h ELSE 0
    IN  SubSeq(filtered(a), start + 1, end)

\* lines 405-423: the target under the cursor.  some is FALSE when the
\* cursor is on no target (builds.get(idx) is None)
enter_target(a) ==
    LET pcount == Len(cfg.projects)
        idx    == a.selected - pcount
    IN  IF a.selected < pcount
        THEN LET project == cfg.projects[a.selected + 1]
                 r == log_path_from_uproject(project.uproject)
             IN  [some |-> TRUE, ok |-> r.ok, path |-> r.path,
                  name |-> name_or_key(project), is_build |-> FALSE]
        ELSE IF idx < Len(cfg.builds)
        THEN LET build == cfg.builds[idx + 1]
                 r == log_path_from_exe(build.exe)
             IN  [some |-> TRUE, ok |-> r.ok, path |-> r.path,
                  name |-> name_or_key(build), is_build |-> TRUE]
        ELSE [some |-> FALSE, ok |-> TRUE, path |-> <<>>,
              name |-> "", is_build |-> FALSE]

\* on_key (lines 399-466): the App after the key, result being what on_key
\* returns ("Continue", "Quit", or "Err" when ? propagates an error)
on_key(a, kind, key) ==
    IF a.mode = "Select"
    THEN IF key \in {"q", "Esc"} THEN [a EXCEPT !.result = "Quit"]
         ELSE IF key = "Up" /\ kind = "Press"
         THEN IF a.selected > 0 THEN [a EXCEPT !.selected = @ - 1] ELSE a
         ELSE IF key = "Down" /\ kind = "Press"
         THEN IF a.selected + 1 < Len(cfg.projects) + Len(cfg.builds)
              THEN [a EXCEPT !.selected = @ + 1] ELSE a
         ELSE IF key = "Enter" /\ kind = "Press"
         THEN LET t == enter_target(a)
              IN  IF ~t.some THEN [a EXCEPT !.mode = "View"]
                  ELSE IF ~t.ok THEN [a EXCEPT !.result = "Err"]
                  ELSE [start_tail([a EXCEPT !.current_is_build = t.is_build],
                                   t.name, t.path, a.nsess + 1)
                          EXCEPT !.mode = "View"]
         ELSE a
    ELSE IF a.show_help
    THEN IF kind = "Press" /\ key \in {"h", "Esc"} THEN [a EXCEPT !.show_help = FALSE]
         ELSE IF kind = "Press" /\ key = "q" THEN [a EXCEPT !.result = "Quit"]
         ELSE a
    ELSE IF key \in {"q", "Esc"} THEN [a EXCEPT !.result = "Quit"]
    ELSE IF key = "h" /\ kind = "Press" THEN [a EXCEPT !.show_help = TRUE]
    ELSE IF key = "c" THEN [a EXCEPT !.lines = <<>>, !.scroll_from_bottom = 0]
    ELSE IF key = "t" /\ kind = "Press" THEN [a EXCEPT !.show_timestamp = ~@]
    ELSE IF key = "w" /\ kind = "Press" THEN [a EXCEPT !.wrap_lines = ~@]
    ELSE IF key = "f" THEN [a EXCEPT !.active_category_filter = None]
    ELSE IF key = "s"
    THEN [a EXCEPT !.mode = "Select", !.current_name = None,
                   !.current_is_build = FALSE, !.lines = <<>>,
                   !.scroll_from_bottom = 0, !.last_error = None,
                   !.active_category_filter = None]
    ELSE IF key = "Up" THEN scroll_up(a, 1)
    ELSE IF key = "Down" THEN scroll_down(a, 1)
    ELSE IF key = "PageUp" THEN scroll_up(a, 10)
    ELSE IF key = "PageDown" THEN scroll_down(a, 10)
    ELSE IF key = "Home" THEN [a EXCEPT !.scroll_from_bottom = Len(a.lines)]
    ELSE IF key = "End" THEN [a EXCEPT !.scroll_from_bottom = 0]
    ELSE a

NoChan == [ev |-> <<>>, rx_open |-> TRUE, cmd |-> <<>>, tx_cmd_open |-> TRUE]

\* the most commands the model lets wait unread in one command queue
MaxCmd == 1

\* lines 106-111: a key event is read and handled.  On top of on_key's
\* changes to the App: start_tail creates session new, whose worker starts
\* (line 575), and the receiver and the command sender the App held before
\* are dropped (lines 577-578); 'c' sends Cmd::Clear (line 439).
OnKey(kind, key) ==
    /\ app.pc = "loop"
    /\ LET a1      == on_key(app, kind, key)
           new     == app.nsess + 1
           started == a1.nsess # app.nsess
           cleared == app.mode = "View" /\ ~app.show_help /\ key = "c"
           wiped   == Len(a1.lines) = 0 /\
                          (cleared \/ started \/ a1.mode # app.mode)
       IN  /\ started => new \in Sessions
           /\ cleared => Len(chan[app.tx_cmd].cmd) < MaxCmd
           /\ app' = [a1 EXCEPT !.pc = IF a1.result = "Continue" THEN "loop" ELSE "exit"]
           /\ chan' =
                IF started
                THEN [c \in Threads |->
                        IF c = new THEN [NoChan EXCEPT !.rx_open = (a1.rx = new)]
                        ELSE [chan[c] EXCEPT
                                !.rx_open = @ /\ ~(c = app.rx /\ a1.rx # app.rx),
                                !.ev = IF c = app.rx /\ a1.rx # app.rx THEN <<>> ELSE @,
                                !.tx_cmd_open = @ /\ c # app.tx_cmd]]
                ELSE IF cleared /\ tail[app.tx_cmd].pc # "exit"
                THEN [chan EXCEPT ![app.tx_cmd].cmd = Append(@, "Clear")]
                ELSE chan
           /\ tail' =
                IF started
                THEN [tail EXCEPT ![new] = [NoTail EXCEPT !.pc = "spawn",
                                               !.path = enter_target(app).path]]
                ELSE tail
           /\ hist' = [hist EXCEPT
                  !.appended = IF wiped THEN <<>> ELSE @,
                  !.cleared_at =
                      IF cleared /\ app.tx_cmd \in Sessions
                                 /\ tail[app.tx_cmd].path \in DOMAIN fs.file
                      THEN Len(fs.file[tail[app.tx_cmd].path].bytes)
                      ELSE @]
    /\ UNCHANGED <<fs, dec>>

\* spawn_idle_tail (lines 609-614): recv() returns once a command arrives
\* or the command sender is dropped; the thread sends Tick and ends
IdleTail ==
    /\ Running
    /\ tail[0].pc = "idle"
    /\ chan[0].cmd # <<>> \/ ~chan[0].tx_cmd_open
    /\ tail' = [tail EXCEPT ![0].pc = "exit"]
    /\ chan' = [chan EXCEPT ![0] = send_all([@ EXCEPT !.cmd = IF @ = <<>> THEN @ ELSE Tail(@)],
                                            <<TickEvent>>)]
    /\ UNCHANGED <<fs, app, hist, dec>>

MAX_EVENTS_PER_TICK == 1000

\* mutant of received: the loop goes on until the queue is empty
received_all(queued) == queued

\* lines 124-131: how many events the loop of one tick receives when the
\* queue holds queued of them: it stops at the budget or at an empty (or
\* disconnected) queue
received(queued) == Min(queued, MAX_EVENTS_PER_TICK)

\* a loop that takes the event off the queue and does nothing with it
apply_event_dropped(a, ev) == a

\* lines 126-128: one received event
apply_event(a, ev) ==
    IF ev.type = "Line" THEN push_line(a, ev.line)
    ELSE IF ev.type = "Error" THEN [a EXCEPT !.last_error = Some(<<ev.msg>>)]
    ELSE a

\* the events q[lo..hi] applied in queue order; nothing follows a panic
RECURSIVE apply_events(_, _, _, _)
apply_events(a, q, lo, hi) ==
    IF lo > hi \/ a.pc = "panic" THEN a
    ELSE IF lo = hi THEN apply_event(a, q[lo])
    ELSE apply_events(apply_events(a, q, lo, (lo + hi) \div 2),
                      q, (lo + hi) \div 2 + 1, hi)

\* lines 584-604 when discovery finds no open editor: the configuration
\* stays and the cursor is held inside it
maybe_refresh_discovered(a) ==
    LET total == Len(cfg.projects) + Len(cfg.builds)
    IN  IF a.mode # "Select" THEN a
        ELSE IF total = 0 THEN [a EXCEPT !.selected = 0]
        ELSE IF a.selected >= total THEN [a EXCEPT !.selected = total - 1]
        ELSE a

\* the most ticks counted where ticks are counted
MaxTicks == 6

\* lines 133-139 and the state after the loop of lines 124-132 has
\* received q[1..processed] and left the App as a1
tick_done(q, processed, a1) ==
    /\ app' = IF a1.pc = "panic" THEN a1
              ELSE [maybe_refresh_discovered(a1) EXCEPT !.last_error =
                       IF processed = MAX_EVENTS_PER_TICK
                       THEN Some(<<"High log throughput: throttling display to keep UI responsive">>)
                       ELSE @]
    /\ chan' = [chan EXCEPT ![app.rx].ev = SubSeq(q, processed + 1, Len(q))]
    /\ hist' = IF a1.pc = "panic" THEN hist
               ELSE [hist EXCEPT
                       !.ticks = IF @ < 0 THEN @ ELSE @ + 1,
                       !.appended = @ \o
                           [i \in 1..Cardinality({j \in 1..processed : q[j].type = "Line"}) |->
                               SelectSeq(SubSeq(q, 1, processed),
                                         LAMBDA ev : ev.type = "Line")[i].line]]

tick_loop(q, processed) == tick_done(q, processed, apply_events(app, q, 1, processed))

\* lines 119-139: one due tick.  The events a worker sends while the loop
\* runs are received in this tick only if they fit the budget, as if they
\* had been sent before it; the tick is one step.
Tick ==
    /\ app.pc = "loop"
    /\ hist.ticks < MaxTicks
    /\ tick_loop(chan[app.rx].ev, received(Len(chan[app.rx].ev)))
    /\ UNCHANGED <<fs, tail, dec>>

(***************************************************************************)
(* One tail session against a changing file: the worker of session 1 has   *)
(* just been spawned on a path whose file is absent or holds some bytes,   *)
(* and the file is appended to, truncated, deleted and created again while *)
(* the worker polls.                                                       *)
(***************************************************************************)
TailPath == log_path_from_uproject(cfg.projects[1].uproject).path

InitHist(paths) ==
    [grow_only |-> [p \in paths |-> TRUE],
     mark  |-> [s \in Sessions |-> NoMark],
     start |-> [s \in Sessions |-> 0],
     reset |-> [s \in Sessions |-> FALSE],
     fed   |-> [s \in Sessions |-> <<>>],
     sent  |-> [s \in Sessions |-> <<>>],
     appended |-> <<>>,
     queued |-> <<>>,
     cleared_at |-> 0,
     ticks |-> -1]

InitTail ==
    /\ \E bt \in BOOLEAN, f \in {NoFile} \cup
                 [exists : {TRUE}, bytes : SeqsUpTo(FileBytes, MaxFile - 1),
                  created : {0}, modified : {0}] :
          fs = [clock |-> 0, btime |-> bt, file |-> [p \in {TailPath} |-> f]]
    /\ tail = [s \in Threads |->
                 IF s = 1 THEN [NoTail EXCEPT !.pc = "spawn", !.path = TailPath]
                 ELSE IF s = 0 THEN [NoTail EXCEPT !.pc = "exit"]
                 ELSE NoTail]
    /\ chan = [s \in Threads |->
                 IF s = 0 THEN [NoChan EXCEPT !.rx_open = FALSE, !.tx_cmd_open = FALSE]
                 ELSE NoChan]
    /\ hist = InitHist({TailPath})
    /\ app = on_key(AppNew, "Press", "Enter")
    /\ dec = Unused

NextTail ==
    \/ FsAppend(TailPath)
    \/ FsTruncate(TailPath)
    \/ FsDelete(TailPath)
    \/ FsCreate(TailPath)
    \/ WSpawn(1)
    \/ WCmd(1)
    \/ WStat(1)
    \/ WReadOk(1)
    \/ WReadFail(1)

SpecTail == InitTail /\ [][NextTail]_vars

\* the lines one unsplit read of the first n bytes of the file at p, decoded
\* with an empty carry, emits
unsplit_lines(p, n) == decode_chunk(<<>>, SubSeq(fs.file[p].bytes, 1, n)).lines

sent_since_mark(s) ==
    SubSeq(hist.sent[s], hist.mark[s].at + 1, Len(hist.sent[s]))

\* C2: after a poll has found the file shorter than the offset (and the file
\* has only grown since), the lines emitted from then on are the lines of a
\* single unsplit read of the new file from byte 0 up to the offset.
C2_TruncationRestartsClean ==
    hist.mark[1].kind = "trunc" /\ tail[1].pc # "read"
        => sent_since_mark(1) = unsplit_lines(TailPath, tail[1].offset)

\* C3: after the worker has seen the file absent and then a new file at the
\* path, the lines emitted since are the lines of the new file from byte 0
\* up to the offset, whatever the new file's length.
C3_RecreatedFileReadFromStart ==
    ( /\ hist.mark[1].kind = "vanish" /\ hist.mark[1].seen
      /\ tail[1].pc # "read" /\ fs.file[TailPath].exists )
        => /\ tail[1].offset <= Len(fs.file[TailPath].bytes)
           /\ sent_since_mark(1) = unsplit_lines(TailPath, tail[1].offset)

\* C4: while the file has only been appended to and no Reset was handled,
\* the bytes handed to the decoder are exactly the file's bytes from the
\* starting offset up to the current offset.
C4_ExactlyOnceUnderGrowth ==
    hist.grow_only[TailPath] /\ ~hist.reset[1] /\ tail[1].pc \notin {"none", "spawn"}
        => /\ tail[1].offset <= Len(fs.file[TailPath].bytes)
           /\ tail[1].offset = hist.start[1] + Len(hist.fed[1])
           /\ hist.fed[1] = SubSeq(fs.file[TailPath].bytes,
                                   hist.start[1] + 1, tail[1].offset)

\* the worker started at the end of a file that held bytes already, the
\* file grew, and the worker has consumed all that was appended
C4_Witness ==
    /\ hist.grow_only[TailPath] /\ ~hist.reset[1]
    /\ hist.start[1] >= 1
    /\ Len(hist.fed[1]) >= 2
    /\ tail[1].offset = Len(fs.file[TailPath].bytes)

(***************************************************************************)
(* The program: the consumer reads keys and ticks, every Enter on a valid  *)
(* target starts a session, and the workers of all sessions started so far *)
(* poll their files while the files change.                                *)
(***************************************************************************)
\* the log files of the targets the keys of this specification can reach
LogPaths == {TailPath}

\* the most writes to the log files while the program runs
MaxWrites == 2

\* what the writer of the log appends in one write: the line "a"
LogRecord == <<97, NL>>

\* the keys that start a session and go back to the menu
SwitchKeys == {"Enter", "s"}

Init ==
    /\ fs = [clock |-> 0, btime |-> TRUE,
             file |-> [p \in LogPaths |->
                         [exists |-> TRUE, bytes |-> <<>>,
                          created |-> 0, modified |-> 0]]]
    /\ tail = [s \in Threads |-> IF s = 0 THEN [NoTail EXCEPT !.pc = "idle"] ELSE NoTail]
    /\ chan = [s \in Threads |-> NoChan]
    /\ hist = InitHist(LogPaths)
    /\ app = AppNew
    /\ dec = Unused

Next ==
    \/ \E p \in LogPaths : fs.clock < MaxWrites /\ FsWrite(p, LogRecord)
    \/ \E s \in Sessions : WSpawn(s)
    \/ \E s \in Sessions : WCmd(s)
    \/ \E s \in Sessions : WStat(s)
    \/ \E s \in Sessions : WReadOk(s)
    \/ \E s \in Sessions : WReadFail(s)
    \/ IdleTail
    \/ \E key \in SwitchKeys : OnKey("Press", key)
    \/ Tick

Spec == Init /\ [][Next]_vars

\* the tail workers started and still running: spawn_tail's loop has no
\* exit, so a worker lives as long as the process
alive_workers == {s \in Sessions : tail[s].pc # "none"}

\* C5: in every reachable state of the running program at most one tail
\* worker thread is alive.
C5_AtMostOneWorkerAlive ==
    Running => Cardinality(alive_workers) <= 1

\* C6: every line in the scrollback, and every line appended since the
\* scrollback was last cleared, was emitted by the worker of the session
\* start_tail activated last.
C6_NoCrossSessionLines ==
    /\ \A i \in 1..Len(app.lines) : app.lines[i].from = app.nsess
    /\ \A i \in 1..Len(hist.appended) : hist.appended[i].from = app.nsess

\* the second session is active and has delivered a line, so that line was
\* written after its worker started; the first session's worker has emitted
\* two lines, the later of them after the switch, and its queue is gone
C6_Witness ==
    /\ app.nsess = 2
    /\ app.lines # <<>>
    /\ Len(hist.sent[1]) = 2
    /\ ~chan[1].rx_open

(***************************************************************************)
(* The consumer alone against a queue that already holds events: session 1 *)
(* is active, its queue holds n line events and nothing is produced any    *)
(* more.  Line i has the text "L" and the five digits of i, so that no two *)
(* lines are equal; with poison, the second line is one the progress       *)
(* tracker panics on.                                                      *)
(***************************************************************************)
MaxQueued == 5000

numbered_text(i) ==
    <<76, 48 + ((i \div 10000) % 10), 48 + ((i \div 1000) % 10),
      48 + ((i \div 100) % 10), 48 + ((i \div 10) % 10), 48 + (i % 10)>>

\* "é total é "
PoisonText == <<233, SPACE>> \o STR_total \o <<233, SPACE>>

\* the line events numbered from + 1 .. from + n, as session 1 sends them
numbered_events(from, n) ==
    [i \in 1..n |-> LineEvent(LogLine(numbered_text(from + i)), 1)]

\* the state once start_tail has activated session 1 on the first project
\* and its worker has started at the end of the (empty) log file
Watching(events) ==
    /\ fs = [clock |-> 0, btime |-> TRUE,
             file |-> [p \in {TailPath} |->
                         [exists |-> TRUE, bytes |-> <<>>,
                          created |-> 0, modified |-> 0]]]
    /\ tail = [s \in Threads |->
                 IF s = 1 THEN [NoTail EXCEPT !.pc = "cmd", !.path = TailPath]
                 ELSE IF s = 0 THEN [NoTail EXCEPT !.pc = "exit"]
                 ELSE NoTail]
    /\ chan = [s \in Threads |->
                 IF s = 0 THEN [NoChan EXCEPT !.rx_open = FALSE, !.tx_cmd_open = FALSE]
                 ELSE IF s = 1 THEN [NoChan EXCEPT !.ev = events]
                 ELSE NoChan]
    /\ dec = Unused

\* queue sizes around zero, one budget, two budgets and the most
QueuedSizes ==
    0..5 \cup {MAX_EVENTS_PER_TICK + d : d \in {-1, 0, 1}}
         \cup {2 * MAX_EVENTS_PER_TICK + d : d \in {-1, 0, 1}}
         \cup {MaxQueued - 2, MaxQueued - 1, MaxQueued}

InitTick ==
    \E n \in QueuedSizes, poison \in BOOLEAN :
        LET clean  == numbered_events(0, n)
            events == IF poison /\ n >= 2
                      THEN [clean EXCEPT ![2] = LineEvent(LogLine(PoisonText), 1)]
                      ELSE clean
        IN  /\ Watching(events)
            /\ app = on_key(AppNew, "Press", "Enter")
            /\ hist = [InitHist({TailPath}) EXCEPT !.ticks = 0, !.queued = events]

NextTick == Tick

SpecTick == InitTick /\ [][NextTick]_vars

\* C7: with N line events queued and nothing produced any more, after k
\* completed ticks the scrollback holds exactly the first min(N, k * 1000)
\* events' lines in queue order and the queue holds the rest in order.
C7_BudgetPerTick ==
    app.pc = "loop" =>
        LET N    == Len(hist.queued)
            done == Min(N, hist.ticks * MAX_EVENTS_PER_TICK)
        IN  /\ app.lines = [i \in 1..done |-> hist.queued[i].line]
            /\ chan[app.rx].ev = SubSeq(hist.queued, done + 1, N)

\* 5000 queued events have been applied by 5 completed ticks
C7_Witness ==
    /\ app.pc = "loop"
    /\ hist.ticks = 5
    /\ Len(hist.queued) = 5000
    /\ Len(app.lines) = 5000
    /\ chan[app.rx].ev = <<>>

(***************************************************************************)
(* The view near capacity: session 1 is active, the scrollback holds the   *)
(* k lines pushed so far, the queue holds the next few lines, and the user *)
(* scrolls and clears while ticks push the queued lines.                   *)
(***************************************************************************)
MaxPush == 2
MaxScroll == 12

\* how many lines the scrollback holds at the start
Prefilled == {0, CAP - 1, CAP}

ViewKeys == {"Up", "Down", "PageUp", "PageDown", "Home", "End", "c"}

\* the body heights draw is given
Heights == {1, 3}

InitView ==
    \E k \in Prefilled, m \in 0..MaxPush :
        LET shown == numbered_events(0, k)
            lines == [i \in 1..k |-> shown[i].line]
        IN  /\ Watching(numbered_events(k, m))
            /\ app = [on_key(AppNew, "Press", "Enter") EXCEPT !.lines = lines]
            /\ hist = [InitHist({TailPath}) EXCEPT !.appended = lines]

\* the key leaves the offset within MaxScroll of the bottom, or at the top
scroll_bounded(key) ==
    LET a1 == on_key(app, "Press", key)
    IN  a1.scroll_from_bottom <= MaxScroll \/ a1.scroll_from_bottom = Len(a1.lines)

NextView ==
    \/ Tick
    \/ \E key \in ViewKeys : scroll_bounded(key) /\ OnKey("Press", key)

SpecView == InitView /\ [][NextView]_vars

\* C8: the scrollback never holds more than CAP lines, and it holds exactly
\* the last min(N, CAP) of the N lines appended since the last clear, in
\* arrival order.
C8_CapacityKeepsNewest ==
    LET N    == Len(hist.appended)
        kept == Min(N, CAP)
    IN  /\ Len(app.lines) <= CAP
        /\ app.lines = SubSeq(hist.appended, N - kept + 1, N)

\* more than CAP lines have been appended and the scrollback is full
C8_Witness ==
    /\ Len(hist.appended) > CAP
    /\ Len(app.lines) = CAP

\* the lines a step appends, and the lines it evicts from the front
appended_by_step == Len(hist.appended') - Len(hist.appended)
evicted_by_step == Len(app.lines) + appended_by_step - Len(app.lines')

\* C9: a step whose push_line calls evict k lines in all leaves
\* scroll_from_bottom at max(0, old - k); a step that pushes without
\* evicting leaves it unchanged.
C9_ScrollFollowsEviction ==
    [][ appended_by_step > 0 =>
            app.scroll_from_bottom' =
                IF evicted_by_step > 0
                THEN Max(0, app.scroll_from_bottom - evicted_by_step)
                ELSE app.scroll_from_bottom ]_vars

\* a tick has pushed lines into a full scrollback while the viewer was
\* scrolled back further than the tick evicted
C9_Witness ==
    /\ Len(hist.appended) > CAP
    /\ chan[app.rx].ev = <<>>
    /\ app.scroll_from_bottom > 0

\* the index (from 0) of the first line draw shows in a body of height h
window_start(a, h) ==
    LET total == Len(filtered(a))
        end   == IF total > a.scroll_from_bottom THEN total - a.scroll_from_bottom ELSE 0
    IN  IF end > h THEN end - h ELSE 0

\* C10: when one push_line evicts a line outside the visible window while
\* the viewer is scrolled back and no filter is active, the visible slice
\* for a fixed body height is the same after the push as before it.
C10_WindowStableUnderEviction ==
    [][ ( /\ appended_by_step = 1
          /\ evicted_by_step = 1
          /\ app.scroll_from_bottom > 0
          /\ ~is_some(app.active_category_filter) )
        => \A h \in Heights :
              window_start(app, h) >= 1
                  => visible_slice(app', h) = visible_slice(app, h) ]_vars

(***************************************************************************)
(* The log body and the pointer.  draw splits the terminal into a header   *)
(* row, the body and a footer row, remembers the body's Rect and hands the *)
(* visible slice to a Paragraph inside a bordered Block; on_mouse maps a   *)
(* click back to a line from the Rect draw remembered.  Rows and columns   *)
(* are counted from 0, as the terminal counts them.                        *)
(***************************************************************************)
\* lines 251-254: chunks[1] of the vertical split Length(1), Min(1),
\* Length(1) of a terminal of at least three rows
body_chunk(size) == Rect(0, 1, size.width, size.height - 2)

\* line 307: what draw changes in the App
draw(a, size) ==
    IF a.mode = "View" THEN [a EXCEPT !.last_body_area = body_chunk(size)] ELSE a

\* saturating_sub(2): the rows inside the Block's borders
content_height(body) == IF body.height > 2 THEN body.height - 2 ELSE 0

\* lines 478-480: the indices (from 0) into lines of the lines that pass
\* the category filter
RECURSIVE indices_from(_, _)
indices_from(a, i) ==
    IF i > Len(a.lines) THEN <<>>
    ELSE IF ~is_some(a.active_category_filter)
            \/ a.lines[i].category = a.active_category_filter
    THEN <<i - 1>> \o indices_from(a, i + 1)
    ELSE indices_from(a, i + 1)

filtered_indices(a) == indices_from(a, 1)

\* lines 302 and 483: total.saturating_sub(scroll_from_bottom)
slice_end(a) ==
    LET total == Len(filtered_indices(a))
    IN  IF total > a.scroll_from_bottom THEN total - a.scroll_from_bottom ELSE 0

\* lines 303 and 484: end.saturating_sub(h)
slice_start(a, h) == IF slice_end(a) > h THEN slice_end(a) - h ELSE 0

\* lines 300-304 and 349-355, word wrap off: the index of the line shown on
\* content row r.  The slice is cut with h = chunks[1].height; the Paragraph
\* writes its lines from the first content row down, one per row, and the
\* Block's inner area has chunks[1].height - 2 rows.
drawn_row(a, chunk, r) ==
    LET start == slice_start(a, chunk.height)
    IN  IF r < content_height(chunk) /\ start + r < slice_end(a)
        THEN Some(filtered_indices(a)[start + r + 1])
        ELSE None

\* lines 481-488: the index of the line on_mouse takes for content row r
hit_row(a, body, r) ==
    LET start == slice_start(a, content_height(body))
        idx_in_view == start + r
    IN  IF idx_in_view < slice_end(a) /\ idx_in_view < Len(filtered_indices(a))
        THEN Some(filtered_indices(a)[idx_in_view + 1])
        ELSE None

\* lines 315-321 and 491-496: the width of "[ts] " when it is shown
ts_len(a, l) ==
    IF a.show_timestamp /\ is_some(l.ts) THEN Len(unwrap(l.ts)) + 3 ELSE 0

\* lines 323-324 and 497-498: the width of "category:"
cat_len(l) == Len(unwrap(l.category)) + 1

\* lines 475-476: the click is inside the borders of the body
in_content(body, m) ==
    /\ m.column >= body.x + 1 /\ m.column < body.x + body.width - 1
    /\ m.row >= body.y + 1 /\ m.row < body.y + body.height - 1

\* lines 489-506: the click at content column content_x on the line at
\* line_idx
click_line(a, line_idx, content_x) ==
    LET l == a.lines[line_idx + 1]
    IN  IF is_some(l.category)
           /\ content_x >= ts_len(a, l) /\ content_x < ts_len(a, l) + cat_len(l)
        THEN [a EXCEPT !.active_category_filter = l.category,
                       !.scroll_from_bottom = 0]
        ELSE a

\* lines 485-488
click_row(a, body, m, hit) ==
    IF is_some(hit) THEN click_line(a, unwrap(hit), m.column - (body.x + 1)) ELSE a

\* on_mouse (lines 468-510); m.kind is "DownLeft" for Down(Left)
on_mouse(a, m) ==
    IF a.mode # "View" \/ m.kind # "DownLeft" THEN a
    ELSE IF ~in_content(a.last_body_area, m) THEN a
    ELSE click_row(a, a.last_body_area, m,
                   hit_row(a, a.last_body_area, m.row - (a.last_body_area.y + 1)))

\* lines 99 and 112: the frame is drawn at the terminal's size, then a mouse
\* event is read and handled
OnMouse(size, m) ==
    /\ app.pc = "loop"
    /\ app' = on_mouse(draw(app, size), m)
    /\ UNCHANGED <<fs, tail, chan, hist, dec>>

\* the most lines the scrollback holds at the start
MaxShown == 3

\* "[1]A: x", "B: y", "z" and "[2]B: w"
ShownTexts ==
    { <<91, 49, 93, 65, 58, 32, 120>>, <<66, 58, 32, 121>>, <<122>>,
      <<91, 50, 93, 66, 58, 32, 119>> }

\* the terminal sizes draw meets
TermSizes == [width : {10}, height : {5, 6}]

\* the mouse events: the left button pressed on a cell of the terminal, and
\* the pointer moved
MouseEvents ==
    [kind : {"DownLeft"}, column : 0..7, row : 0..4]
        \cup [kind : {"Moved"}, column : {1}, row : {2}]

MouseKeys == {"t", "w", "f", "Up", "Down", "Home"}

InitMouse ==
    \E texts \in SeqsUpTo(ShownTexts, MaxShown) :
        LET lines == [i \in 1..Len(texts) |-> LineEvent(LogLine(texts[i]), 1).line]
        IN  /\ Watching(<<>>)
            /\ app = [on_key(AppNew, "Press", "Enter") EXCEPT !.lines = lines]
            /\ hist = [InitHist({TailPath}) EXCEPT !.appended = lines]

NextMouse ==
    \/ \E size \in TermSizes, m \in MouseEvents : OnMouse(size, m)
    \/ \E key \in MouseKeys : OnKey("Press", key)

SpecMouse == InitMouse /\ [][NextMouse]_vars

\* C11: in the log view with word wrap off, for every content row of the
\* body draw remembered, the line the hit-test takes for the row is the line
\* the renderer shows on it (or both have none).
C11_RenderHitTestConsistent ==
    (app.mode = "View" /\ ~app.wrap_lines) =>
        \A r \in 0..(content_height(app.last_body_area) - 1) :
            hit_row(app, app.last_body_area, r)
                = drawn_row(app, app.last_body_area, r)

\* the cell of mouse event m shows, with word wrap off, a character of the
\* category token of the line drawn on its row
on_drawn_category(a, m) ==
    LET body  == a.last_body_area
        shown == drawn_row(a, body, m.row - (body.y + 1))
        x     == m.column - (body.x + 1)
    IN  /\ is_some(shown)
        /\ is_some(a.lines[unwrap(shown) + 1].category)
        /\ x >= ts_len(a, a.lines[unwrap(shown) + 1])
        /\ x < ts_len(a, a.lines[unwrap(shown) + 1])
                 + cat_len(a.lines[unwrap(shown) + 1])

drawn_category(a, m) ==
    a.lines[unwrap(drawn_row(a, a.last_body_area,
                             m.row - (a.last_body_area.y + 1))) + 1].category

\* C12: with word wrap off, a left click on a content row inside the span of
\* the category token drawn there sets the filter to that line's category
\* and scroll_from_bottom to 0; a left click on a content row anywhere else
\* leaves both unchanged.
C12_FilterHitTest ==
    [][ \A size \in TermSizes, m \in MouseEvents :
          ( /\ OnMouse(size, m)
            /\ m.kind = "DownLeft"
            /\ app.mode = "View" /\ ~app.wrap_lines
            /\ in_content(body_chunk(size), m) )
          => IF on_drawn_category(draw(app, size), m)
             THEN /\ app'.active_category_filter
                        = drawn_category(draw(app, size), m)
                  /\ app'.scroll_from_bottom = 0
             ELSE /\ app'.active_category_filter = app.active_category_filter
                  /\ app'.scroll_from_bottom = app.scroll_from_bottom ]_vars

(***************************************************************************)
(* The selection menu: the cursor moves over the targets of the            *)
(* configuration, Enter starts a session on the target under it, and the   *)
(* sessions started so far go on polling while the user is in the menu.    *)
(***************************************************************************)
BuildPath == log_path_from_exe(cfg.builds[1].exe).path

SelectPaths == {TailPath, BuildPath}

SelectKeys == {"Up", "Down", "Enter", "s"}

\* the most writes to the log files while the menu is used
MaxSelectWrites == 1

InitSelect ==
    /\ fs = [clock |-> 0, btime |-> TRUE,
             file |-> [p \in SelectPaths |->
                         [exists |-> TRUE, bytes |-> <<>>,
                          created |-> 0, modified |-> 0]]]
    /\ tail = [s \in Threads |-> IF s = 0 THEN [NoTail EXCEPT !.pc = "idle"] ELSE NoTail]
    /\ chan = [s \in Threads |-> NoChan]
    /\ hist = InitHist(SelectPaths)
    /\ app = AppNew
    /\ dec = Unused

NextSelect ==
    \/ \E p \in SelectPaths : fs.clock < MaxSelectWrites /\ FsWrite(p, LogRecord)
    \/ \E s \in Sessions : WSpawn(s)
    \/ \E s \in Sessions : WCmd(s)
    \/ \E s \in Sessions : WStat(s)
    \/ \E s \in Sessions : WReadOk(s)
    \/ \E s \in Sessions : WReadFail(s)
    \/ IdleTail
    \/ \E key \in SelectKeys : OnKey("Press", key)
    \/ Tick

SpecSelect == InitSelect /\ [][NextSelect]_vars

\* C13: an Enter in the menu on a target whose log path cannot be derived
\* leaves the main loop running and leaves the scrollback, the cursor, the
\* mode and the sessions (their workers and channels) as they were.
C13_DerivationErrorIsLocal ==
    [][ ( /\ OnKey("Press", "Enter")
          /\ app.mode = "Select"
          /\ enter_target(app).some /\ ~enter_target(app).ok )
        => /\ app'.pc = "loop"
           /\ app'.lines = app.lines
           /\ app'.selected = app.selected
           /\ app'.mode = app.mode
           /\ app'.rx = app.rx /\ app'.tx_cmd = app.tx_cmd
           /\ tail' = tail /\ chan' = chan ]_vars

(***************************************************************************)
(* Failed reads, checked on the single session of SpecTail.                *)
(***************************************************************************)
\* C14: a step of the worker from its read place that hands no bytes to the
\* decoder (open, seek or read failed, or read returned nothing) sends no
\* event, leaves offset and carry as they were, and takes the worker back to
\* the top of its loop.
C14_ReadFailureSwallowed ==
    [][ ( /\ tail[1].pc = "read"
          /\ tail'[1] # tail[1]
          /\ hist'.fed[1] = hist.fed[1] )
        => /\ chan' = chan
           /\ hist'.sent = hist.sent
           /\ tail'[1].offset = tail[1].offset
           /\ tail'[1].carry = tail[1].carry
           /\ tail'[1].pc = "cmd" ]_vars

\* the worker has polled the file as it is now (the modification time it
\* remembers is the file's), the file holds bytes beyond the offset, and yet
\* the worker is back at the top of its loop without ever having read a
\* byte: the read of this poll failed
C14_Witness ==
    /\ tail[1].pc = "cmd"
    /\ fs.file[TailPath].exists
    /\ tail[1].last_modified = Some(fs.file[TailPath].modified)
    /\ tail[1].offset < Len(fs.file[TailPath].bytes)
    /\ hist.fed[1] = <<>>
    /\ hist.sent[1] = <<>>

(***************************************************************************)
(* The progress tracker alone: update_cook_state is applied to one line,   *)
(* in a fresh session or in the middle of a cook.  The lines are built     *)
(* from an optional prefix of two-byte characters and up to three          *)
(* segments: a marker, or a label followed by a gap, a number and a space. *)
(***************************************************************************)
\* "Cook Command Completed " and "cook command started "
CookMarkers ==
    { [STR_cook_completed EXCEPT ![1] = 67, ![6] = 67, ![14] = 67] \o <<SPACE>>,
      STR_cook_started \o <<SPACE>> }

\* "Cooked packages ", "Packages Remain ", "Total "
LabelCooked == [STR_cooked_packages EXCEPT ![1] = 67]
LabelRemain == [STR_packages_remain EXCEPT ![1] = 80, ![10] = 82]
LabelTotal == [STR_total EXCEPT ![1] = 84]

\* nothing, "é" or "éé" before the first segment
CookPrefixes == {<<>>, <<233>>, <<233, 233>>}

\* between a label and its number: nothing, " ", "x" or "é"
GapNone == <<>>
GapSpace == <<SPACE>>
GapLetter == <<120>>
GapWide == <<233>>

\* 21 nines: more than a u64 holds
TooManyDigits == [i \in 1..21 |-> 57]

\* label, gap, number (possibly none) and a space
CookSegments(label, gaps, nums) ==
    {label \o gap \o num \o <<SPACE>> : gap \in gaps, num \in nums}

CookedSegments ==
    CookSegments(LabelCooked, {GapNone, GapSpace, GapLetter}, {<<>>, <<55>>})
RemainSegments ==
    CookSegments(LabelRemain, {GapNone}, {<<>>, <<55>>})
TotalSegments ==
    CookSegments(LabelTotal, {GapNone, GapSpace, GapWide},
                 {<<>>, <<48>>, <<55>>, TooManyDigits})

\* "LogCook: Display: Cooked packages 816 Packages Remain 4532 Total 5348"
ExampleLine ==
    <<76, 111, 103, 67, 111, 111, 107, 58, 32, 68, 105, 115, 112, 108, 97, 121,
      58, 32>> \o LabelCooked \o <<56, 49, 54, 32>> \o LabelRemain
        \o <<52, 53, 51, 50, 32>> \o LabelTotal \o <<53, 51, 52, 56>>

\* "Cooked packages 7 Packages Remain 7 Total 7 "
ProgressLine ==
    LabelCooked \o <<55, SPACE>> \o LabelRemain \o <<55, SPACE>>
        \o LabelTotal \o <<55, SPACE>>

\* one marker or two markers in either order, then the counters
MarkedProgressLines ==
    {m \o ProgressLine : m \in CookMarkers}
        \cup {m1 \o m2 \o ProgressLine : m1, m2 \in CookMarkers}

CookTexts ==
    {ExampleLine} \cup MarkedProgressLines \cup
    { pre \o s1 \o s2 \o s3 :
        pre \in CookPrefixes,
        s1 \in {<<>>} \cup CookMarkers \cup CookedSegments,
        s2 \in {<<>>} \cup CookMarkers \cup RemainSegments,
        s3 \in {<<>>} \cup TotalSegments }

\* "Cooked packages 1 Packages Remain 2 Total 5"
MidCookLine ==
    LabelCooked \o <<49, 32>> \o LabelRemain \o <<50, 32>> \o LabelTotal \o <<53>>

\* the App of a session just started, and the same once MidCookLine came
CookPriors ==
    { on_key(AppNew, "Press", "Enter"),
      update_cook_state(on_key(AppNew, "Press", "Enter"), MidCookLine) }

cook_fields(a) ==
    [active |-> a.cook_active, cooked |-> a.cook_cooked,
     remain |-> a.cook_remain, total |-> a.cook_total]

InitCook ==
    /\ \E prior \in CookPriors, text \in CookTexts :
          /\ app = prior
          /\ hist = [text |-> text, before |-> cook_fields(prior), applied |-> FALSE]
    /\ fs = Unused /\ tail = Unused /\ chan = Unused /\ dec = Unused

\* line 515: push_line hands the line's text to the tracker
CookLine ==
    /\ ~hist.applied
    /\ app' = update_cook_state(app, hist.text)
    /\ hist' = [hist EXCEPT !.applied = TRUE]
    /\ UNCHANGED <<fs, tail, chan, dec>>

NextCook == CookLine

SpecCook == InitCook /\ [][NextCook]_vars

\* the line of this behaviour, lowercased
cook_lower == to_ascii_lowercase(hist.text)

marked_completed == contains(cook_lower, STR_cook_completed)
marked_started == contains(cook_lower, STR_cook_started)

\* C15: once the tracker has been applied to a line, if the line contains
\* "cook command completed" (in any case) the bar is inactive and the three
\* counters are what they were before; otherwise, if it contains "cook
\* command started", the bar is active and the three counters are 0.
C15_TriggerOrder ==
    hist.applied =>
        IF marked_completed
        THEN cook_fields(app) = [hist.before EXCEPT !.active = FALSE]
        ELSE marked_started =>
                cook_fields(app) = [active |-> TRUE, cooked |-> 0,
                                    remain |-> 0, total |-> 0]

\* in the middle of a cook the tracker has been applied to a line that holds
\* the started marker, then the completed marker, then the three counters
C15_Witness ==
    /\ hist.applied
    /\ hist.before.active /\ hist.before.cooked > 0
    /\ marked_completed /\ marked_started
    /\ unwrap(find(cook_lower, STR_cook_started))
           < unwrap(find(cook_lower, STR_cook_completed))
    /\ contains(cook_lower, STR_cooked_packages \o <<55>>)
    /\ contains(cook_lower, STR_packages_remain \o <<55>>)
    /\ contains(cook_lower, STR_total \o <<55>>)

\* the maximal run of ASCII digits at the head of s
digit_run(s) ==
    SubSeq(s, 1, SetMin({q \in 1..(Len(s) + 1) :
                            ~(q <= Len(s) /\ is_ascii_digit(s[q]))}) - 1)

\* the digits that follow the first occurrence of label in l once the
\* whitespace after the label is skipped; none when l has no such label
label_digits(l, label) ==
    IF contains(l, label)
    THEN digit_run(trim_start(SliceFrom(l, unwrap(find(l, label)) + Len(label))))
    ELSE <<>>

\* the integer those digits denote, None without digits or beyond a u64
label_number(l, label) ==
    IF label_digits(l, label) = <<>> THEN None
    ELSE parse_u64(label_digits(l, label))

\* C16: once the tracker has recognised a progress line, total is the
\* integer after the "total " label when the label is there with digits
\* that parse (0 included), and completed + remaining otherwise.
C16_TotalFallback ==
    ( /\ hist.applied /\ app.pc = "loop"
      /\ ~marked_completed /\ ~marked_started
      /\ is_some(parse_cook_progress_line(hist.text).val) )
    => app.cook_total =
          IF is_some(label_number(cook_lower, STR_total))
          THEN unwrap(label_number(cook_lower, STR_total))
          ELSE app.cook_cooked + app.cook_remain

\* C17: applying the tracker to a line never panics.
C17_TrackerTotal ==
    hist.applied => app.pc # "panic"

\* C18: a line without either marker and without a number after "cooked
\* packages " or "packages remain " leaves active and the three counters
\* as they were.
C18_UnmatchedIsNoOp ==
    ( /\ hist.applied
      /\ ~marked_completed /\ ~marked_started
      /\ ~is_some(label_number(cook_lower, STR_cooked_packages))
      /\ ~is_some(label_number(cook_lower, STR_packages_remain)) )
    => cook_fields(app) = hist.before

\* C19: a line without either marker and with a number after "cooked
\* packages " or after "packages remain " makes the bar active and sets
\* completed and remaining to those numbers, 0 for the one that is missing;
\* the example line gives 816, 4532 and 5348.
C19_ProgressExtraction ==
    hist.applied =>
        /\ ( /\ ~marked_completed /\ ~marked_started
             /\ \/ is_some(label_number(cook_lower, STR_cooked_packages))
                \/ is_some(label_number(cook_lower, STR_packages_remain)) )
           => /\ app.cook_active
              /\ app.cook_cooked
                    = unwrap_or(label_number(cook_lower, STR_cooked_packages), 0)
              /\ app.cook_remain
                    = unwrap_or(label_number(cook_lower, STR_packages_remain), 0)
        /\ hist.text = ExampleLine
           => cook_fields(app) = [active |-> TRUE, cooked |-> 816,
                                  remain |-> 4532, total |-> 5348]

(***************************************************************************)
(* The line parser alone: parse_log_components is applied to one line      *)
(* (line 684), any text of up to MaxParseLen characters over brackets,     *)
(* colon, space, tab and a letter that is not blank, or the example line.  *)
(***************************************************************************)
MaxParseLen == 5

\* '[', ']', ':', ' ', '\t' and 'a'
ParseChars == {91, 93, 58, SPACE, 9, 97}

\* "[2024.01.01-12.00.00:000][0]LogRenderer: Warning: shader compile slow"
ExampleLogLine ==
    <<91, 50, 48, 50, 52, 46, 48, 49, 46, 48, 49, 45, 49, 50, 46, 48, 48, 46,
      48, 48, 58, 48, 48, 48, 93, 91, 48, 93, 76, 111, 103, 82, 101, 110, 100,
      101, 114, 101, 114, 58, 32, 87, 97, 114, 110, 105, 110, 103, 58, 32, 115,
      104, 97, 100, 101, 114, 32, 99, 111, 109, 112, 105, 108, 101, 32, 115,
      108, 111, 119>>

\* the worker parses no blank line (line 682)
ParseTexts ==
    {t \in SeqsUpTo(ParseChars, MaxParseLen) : ~trim_is_empty(t)}
        \cup {ExampleLogLine}

InitParse ==
    /\ \E text \in ParseTexts : hist = [text |-> text, applied |-> FALSE]
    /\ dec = Unused
    /\ fs = Unused /\ tail = Unused /\ chan = Unused /\ app = Unused

\* line 684
ParseLine ==
    /\ ~hist.applied
    /\ dec' = parse_log_components(hist.text)
    /\ hist' = [hist EXCEPT !.applied = TRUE]
    /\ UNCHANGED <<fs, tail, chan, app>>

NextParse == ParseLine

SpecParse == InitParse /\ [][NextParse]_vars

\* s starts with a bracket group: '[' first and a ']' somewhere
has_group(s) == Len(s) > 0 /\ s[1] = 91 /\ contains(s, CH_rbracket)

\* what follows the bracket group s starts with
after_group(s) == SliceFrom(s, unwrap(find(s, CH_rbracket)) + 1)

\* s without its leading space, tab, line feed, form feed, carriage return
skip_ascii_space(s) == SliceFrom(s, skip_spaces(s, 0))

\* what remains of the line once the timestamp group and a second group
\* right behind it are taken away
after_groups(s) ==
    IF ~has_group(s) THEN s
    ELSE IF has_group(skip_ascii_space(after_group(s)))
    THEN skip_ascii_space(after_group(skip_ascii_space(after_group(s))))
    ELSE skip_ascii_space(after_group(s))

remaining_text == trim_start(after_groups(hist.text))

\* the remaining text has a ':' with a non-empty, space-free text before it
has_category ==
    /\ contains(remaining_text, CH_colon)
    /\ unwrap(find(remaining_text, CH_colon)) > 0
    /\ ~contains(Slice(remaining_text, 0, unwrap(find(remaining_text, CH_colon))),
                 <<SPACE>>)

\* C20: once a line is parsed, the timestamp of a line starting with '[' is
\* the text between that '[' and the first ']'; in what remains after the
\* bracket groups, a non-empty space-free text before the first ':' is the
\* category and the message is what follows that colon without its leading
\* whitespace, and there is no category otherwise; the example line gives
\* its timestamp, "LogRenderer" and "Warning: shader compile slow".
C20_ParserExtraction ==
    hist.applied =>
        /\ has_group(hist.text)
              => dec[1] = Some(Slice(hist.text, 1, unwrap(find(hist.text, CH_rbracket))))
        /\ IF has_category
           THEN /\ dec[2] = Some(Slice(remaining_text, 0,
                                       unwrap(find(remaining_text, CH_colon))))
                /\ dec[3] = trim_start(SliceFrom(remaining_text,
                                 unwrap(find(remaining_text, CH_colon)) + 1))
           ELSE dec[2] = None
        /\ hist.text = ExampleLogLine
              => dec = << Some(SubSeq(ExampleLogLine, 2, 24)),
                          Some(SubSeq(ExampleLogLine, 29, 39)),
                          SubSeq(ExampleLogLine, 42, 69) >>

\* the parser found neither a timestamp nor a category
found_nothing == hist.applied /\ dec[1] = None /\ dec[2] = None

\* C21: when the parser finds neither a timestamp nor a category, the
\* message is the raw line text, with nothing stripped or trimmed.
C21_MessageFallback ==
    found_nothing => dec[3] = hist.text

\* C22: when the parser finds neither a timestamp nor a category, parsing
\* the message again finds neither.
C22_NoDoubleStripping ==
    found_nothing =>
        /\ parse_log_components(dec[3])[1] = None
        /\ parse_log_components(dec[3])[2] = None

(***************************************************************************)
(* Well-formed Line events, stated on the bytes fed so far.  '\n', '\r'    *)
(* and the other ASCII whitespace are single bytes that lossy decoding     *)
(* leaves in place, so the completed raw lines are the '\n'-terminated     *)
(* byte runs, and a raw line is blank exactly if all its bytes are         *)
(* whitespace.                                                             *)
(***************************************************************************)
fed_bytes == SubSeq(dec.bytes, 1, dec.pos)

\* the completed raw lines: every part of the split but the last
completed_raw ==
    LET parts == split(fed_bytes, NL) IN SubSeq(parts, 1, Len(parts) - 1)

raw_nonblank == SelectSeq(completed_raw, LAMBDA r : \E p \in 1..Len(r) : ~is_whitespace(r[p]))

\* the number of '\r' at the end of a text
trailing_cr(t) ==
    LET other == {p \in 1..Len(t) : t[p] # CR}
    IN  IF other = {} THEN Len(t)
        ELSE Len(t) - (CHOOSE p \in other : \A q \in other : q <= p)

\* C25: every Line event carries a text without '\n', without the '\r' that
\* preceded its newline, and not blank; blank completed lines give no event.
C25_EmittedLinesWellFormed ==
    /\ Len(dec.out) = Len(raw_nonblank)
    /\ \A k \in 1..Len(dec.out) :
        /\ ~contains(dec.out[k].text, <<NL>>)
        /\ ~trim_is_empty(dec.out[k].text)
        /\ k <= Len(raw_nonblank) =>
              trailing_cr(dec.out[k].text)
                  = Max(0, trailing_cr(raw_nonblank[k]) - 1)

\* "a\r\n\n" fed whole or in pieces: one event "a", none for the empty line
C25_Witness ==
    /\ dec.bytes = <<97, CR, NL, NL>> /\ dec.pos = 4
    /\ Len(dec.out) = 1 /\ dec.out[1].text = <<97>>

(***************************************************************************)
(* Clearing the view: session 1 watches a log that is written one record   *)
(* at a time, the user presses 'c' at any moment, the worker polls and the *)
(* consumer ticks.                                                         *)
(***************************************************************************)
\* the records the log holds when the session starts
ClearPrefilled == 0..1

InitClear ==
    /\ \E k \in ClearPrefilled :
          fs = [clock |-> 0, btime |-> TRUE,
                file |-> [p \in {TailPath} |->
                            [exists |-> TRUE,
                             bytes |-> IF k = 0 THEN <<>> ELSE LogRecord,
                             created |-> 0, modified |-> 0]]]
    /\ tail = [s \in Threads |->
                 IF s = 1 THEN [NoTail EXCEPT !.pc = "spawn", !.path = TailPath]
                 ELSE IF s = 0 THEN [NoTail EXCEPT !.pc = "exit"]
                 ELSE NoTail]
    /\ chan = [s \in Threads |->
                 IF s = 0 THEN [NoChan EXCEPT !.rx_open = FALSE, !.tx_cmd_open = FALSE]
                 ELSE NoChan]
    /\ hist = InitHist({TailPath})
    /\ app = on_key(AppNew, "Press", "Enter")
    /\ dec = Unused

NextClear ==
    \/ FsWrite(TailPath, LogRecord)
    \/ WSpawn(1)
    \/ WCmd(1)
    \/ WStat(1)
    \/ WReadOk(1)
    \/ WReadFail(1)
    \/ OnKey("Press", "c")
    \/ Tick

SpecClear == InitClear /\ [][NextClear]_vars

\* C23: once the worker has handled a Reset, and while the file has only
\* been appended to since, the offset started from the file's length at the
\* Reset with an empty carry: the bytes decoded since are the file's bytes
\* from that length to the offset, and the lines sent since are their lines.
C23_ResetSkipsToEnd ==
    hist.reset[1] /\ hist.grow_only[TailPath]
        => /\ tail[1].offset <= Len(fs.file[TailPath].bytes)
           /\ tail[1].offset = hist.start[1] + Len(hist.fed[1])
           /\ hist.fed[1] = SubSeq(fs.file[TailPath].bytes,
                                   hist.start[1] + 1, tail[1].offset)
           /\ sent_since_mark(1) = decode_chunk(<<>>, hist.fed[1]).lines
           /\ tail[1].carry = decode_chunk(<<>>, hist.fed[1]).carry

\* a Reset was handled when the file held a record, and a record appended
\* afterwards has been read and sent
C23_Witness ==
    /\ hist.reset[1] /\ hist.grow_only[TailPath]
    /\ hist.start[1] >= Len(LogRecord)
    /\ hist.fed[1] = LogRecord
    /\ Len(sent_since_mark(1)) = 1

\* C30: after the user has cleared the view, the scrollback holds no line
\* built from bytes written before the clear: it never holds more lines than
\* records were written since.
C30_ClearIsAtomic ==
    Len(app.lines) * Len(LogRecord)
        <= Len(fs.file[TailPath].bytes) - hist.cleared_at

(***************************************************************************)
(* Rotation: a tail session against a file that is appended to, deleted,   *)
(* created again, and whose modification time may be set back.             *)
(***************************************************************************)
InitRotate ==
    /\ \E bt \in BOOLEAN, bytes \in SeqsUpTo(FileBytes, 1) :
          fs = [clock |-> 0, btime |-> bt,
                file |-> [p \in {TailPath} |->
                            [exists |-> TRUE, bytes |-> bytes,
                             created |-> 0, modified |-> 0]]]
    /\ tail = [s \in Threads |->
                 IF s = 1 THEN [NoTail EXCEPT !.pc = "spawn", !.path = TailPath]
                 ELSE IF s = 0 THEN [NoTail EXCEPT !.pc = "exit"]
                 ELSE NoTail]
    /\ chan = [s \in Threads |->
                 IF s = 0 THEN [NoChan EXCEPT !.rx_open = FALSE, !.tx_cmd_open = FALSE]
                 ELSE NoChan]
    /\ hist = InitHist({TailPath})
    /\ app = on_key(AppNew, "Press", "Enter")
    /\ dec = Unused

NextRotate ==
    \/ FsAppend(TailPath)
    \/ FsDelete(TailPath)
    \/ FsCreate(TailPath)
    \/ FsBackdate(TailPath)
    \/ WSpawn(1)
    \/ WCmd(1)
    \/ WStat(1)
    \/ WReadOk(1)
    \/ WReadFail(1)

SpecRotate == InitRotate /\ [][NextRotate]_vars

\* the poll of lines 635-665 finds the file: the worker leaves "stat"
polls_file == tail[1].pc = "stat" /\ tail'[1] # tail[1] /\ fs.file[TailPath].exists

\* the creation time the poll reads differs from the last one observed
creation_differs ==
    /\ fs.btime /\ is_some(tail[1].last_created)
    /\ fs.file[TailPath].created # unwrap(tail[1].last_created)

\* the modification time the poll reads is earlier than the last one observed
modified_earlier ==
    /\ is_some(tail[1].last_modified)
    /\ fs.file[TailPath].modified < unwrap(tail[1].last_modified)

MaxDeliverQueued == 5

\* queue sizes: a few events, and more than two budgets
DeliverQueued == 0..MaxDeliverQueued \cup {2 * MAX_EVENTS_PER_TICK + 1}

\* the queue at the start: n numbered lines, the second one replaced by the
\* line the progress tracker panics on if poison
queued_events(n, poison) ==
    IF poison /\ n >= 2 /\ n <= MaxDeliverQueued
    THEN [numbered_events(0, n) EXCEPT ![2] = LineEvent(LogLine(PoisonText), 1)]
    ELSE numbered_events(0, n)

InitDeliver ==
    \E events \in {queued_events(n, poison) : n \in DeliverQueued, poison \in BOOLEAN} :
        /\ fs = [clock |-> 1, btime |-> TRUE,
                 file |-> [p \in {TailPath} |->
                             [exists |-> TRUE, bytes |-> LogRecord,
                              created |-> 0, modified |-> 1]]]
        /\ tail = [s \in Threads |->
                     IF s = 1 THEN [NoTail EXCEPT !.pc = "cmd", !.path = TailPath]
                     ELSE IF s = 0 THEN [NoTail EXCEPT !.pc = "exit"]
                     ELSE NoTail]
        /\ chan = [s \in Threads |->
                     IF s = 0 THEN [NoChan EXCEPT !.rx_open = FALSE,
                                                  !.tx_cmd_open = FALSE]
                     ELSE IF s = 1 THEN [NoChan EXCEPT !.ev = events]
                     ELSE NoChan]
        /\ app = on_key(AppNew, "Press", "Enter")
        /\ hist = [InitHist({TailPath}) EXCEPT !.queued = events]
        /\ dec = Unused

NextDeliver ==
    \/ WCmd(1)
    \/ WStat(1)
    \/ WReadOk(1)
    \/ WReadFail(1)
    \/ Tick

\* a tick would change the state: with ticks uncounted, a tick that finds
\* the queue empty leaves every variable as it is, and one that finds an
\* event takes it off the queue
tick_due == app.pc = "loop" /\ chan[app.rx].ev # <<>>

\* weak fairness of Tick, WF_vars(Tick), with ENABLED <<Tick>>_vars written
\* out as tick_due
SpecDeliver ==
    /\ InitDeliver /\ [][NextDeliver]_vars
    /\ ([]<>(~tick_due) \/ []<><<Tick>>_vars)

\* the lines of the Line events session 1's worker has sent, in the order
\* sent: those queued at the start, then those sent since
emitted ==
    [i \in 1..Len(hist.queued) |-> hist.queued[i].line]
        \o [k \in 1..Len(hist.sent[1]) |-> [hist.sent[1][k] EXCEPT !.from = 1]]

\* C26: while the consumer keeps ticking, the scrollback always holds the
\* first of the lines sent, in the order sent, and again and again it holds
\* every line sent so far.  (The scrollback stays below CAP here and is not
\* cleared, so it holds every line appended.)
C26_EventualDelivery ==
    /\ [](SubSeq(emitted, 1, Len(app.lines)) = app.lines)
    /\ []<>(app.lines = emitted \/ app.pc = "panic")

\* two ticks have used their whole budget, the worker has sent one more
\* line meanwhile, and everything sent has been appended
C26_Witness ==
    /\ Len(hist.queued) = 2 * MAX_EVENTS_PER_TICK + 1
    /\ Len(hist.sent[1]) = 1
    /\ app.pc = "loop"
    /\ app.lines = emitted
    /\ app.last_error # Some(<<"Watching: ", TailPath>>)

(***************************************************************************)
(* The visible slice, stated on the scrollback itself.                     *)
(***************************************************************************)
\* the viewport heights the slice is taken for
SliceHeights == 0..4

\* the positions of the scrollback lines that pass the filter
matching == {i \in 1..Len(app.lines) :
                \/ app.active_category_filter = None
                \/ app.lines[i].category = app.active_category_filter}

\* the lines at those positions, in arrival order
addressed ==
    [k \in 1..Cardinality(matching) |->
        app.lines[CHOOSE i \in matching : Cardinality({j \in matching : j <= i}) = k]]

\* C27: the visible slice is addressed[start..end] with end = max(0, len - s)
\* and start = max(0, end - h), addressed being the scrollback lines that
\* pass the filter in arrival order; it has at most h lines and each passes
\* the filter.
C27_VisibleSliceAddressing ==
    app.mode = "View" =>
        \A h \in SliceHeights :
            LET end   == Max(0, Len(addressed) - app.scroll_from_bottom)
                start == Max(0, end - h)
                slice == visible_slice(app, h)
            IN  /\ slice = SubSeq(addressed, start + 1, end)
                /\ Len(slice) <= h
                /\ \A k \in 1..Len(slice) :
                      \/ app.active_category_filter = None
                      \/ slice[k].category = app.active_category_filter

\* a filter hides a line, the view is scrolled back by one, and a viewport of
\* one row shows the older of two matching lines
C27_Witness ==
    /\ app.mode = "View"
    /\ is_some(app.active_category_filter)
    /\ app.scroll_from_bottom = 1
    /\ Len(addressed) = 2 /\ Len(app.lines) = 3
    /\ visible_slice(app, 1) = <<addressed[1]>>

\* C29: in the log view with a non-empty scrollback and no filter, once Home
\* has put the view at the top (scroll_from_bottom = number of lines, as far
\* back as scrolling goes), a viewport of height h > 0 shows a non-empty
\* slice that starts with the oldest line.
C29_HomeShowsOldest ==
    ( /\ app.mode = "View" /\ app.lines # <<>>
      /\ app.active_category_filter = None
      /\ app.scroll_from_bottom = Len(app.lines) )
        => \A h \in SliceHeights \ {0} :
              /\ visible_slice(app, h) # <<>>
              /\ visible_slice(app, h)[1] = app.lines[1]

(***************************************************************************)
(* Scrolling: session 1 is active on an empty or a full scrollback, two    *)
(* lines with a category wait in the queue, and the user scrolls, jumps,   *)
(* clears, clicks, goes back to the menu and selects a target while ticks  *)
(* push the queued lines.                                                  *)
(***************************************************************************)
\* how many lines the scrollback holds at the start
ScrollPrefilled == {0, CAP}

\* "B: y" twice
ScrollQueued ==
    [i \in 1..2 |-> LineEvent(LogLine(<<66, 58, 32, 121>>), 1)]

ScrollKeys ==
    {"Up", "Down", "PageUp", "PageDown", "Home", "End", "c", "s", "Enter"}

\* a terminal of 10 x 6 cells: the body's content rows are rows 2 and 3
ScrollSize == [width |-> 10, height |-> 6]

\* left clicks on the first content row: on the category token, and past it
ScrollClicks == [kind : {"DownLeft"}, column : {1, 5}, row : {2}]

\* the model clicks only while the scrollback holds at most this many lines
MaxClickLines == 3

InitScroll ==
    \E k \in ScrollPrefilled :
        \E lines \in {[i \in 1..k |-> numbered_events(0, k)[i].line]} :
            /\ Watching(ScrollQueued)
            /\ app = [on_key(AppNew, "Press", "Enter") EXCEPT !.lines = lines]
            /\ hist = InitHist({TailPath})

NextScroll ==
    \/ Tick
    \/ \E key \in ScrollKeys : scroll_bounded(key) /\ OnKey("Press", key)
    \/ \E m \in ScrollClicks :
          Len(app.lines) <= MaxClickLines /\ OnMouse(ScrollSize, m)

SpecScroll == InitScroll /\ [][NextScroll]_vars

\* C28: scroll_from_bottom never exceeds the number of lines in the
\* scrollback.
C28_ScrollOffsetBound ==
    app.scroll_from_bottom <= Len(app.lines)

\* the view was at the top of a full scrollback when a tick pushed two lines
\* and evicted the two oldest
C28_Witness ==
    /\ Len(app.lines) = CAP
    /\ app.scroll_from_bottom = CAP - 2
    /\ app.lines[CAP].category = Some(<<66>>)

(***************************************************************************)
(* The start of a session, under SpecTail: the worker of session 1 takes   *)
(* its first offset from the file as it is at that moment (line 619),      *)
(* present with some bytes or absent, and polls while the file changes.    *)
(***************************************************************************)
\* the step in which the worker of session 1 runs line 619
starts_session == tail[1].pc = "spawn" /\ tail'[1].pc # "spawn"

\* the lines and the carry of one decode, with an empty carry, of the
\* file's bytes from the first offset to the offset
since_start ==
    decode_chunk(<<>>, SubSeq(fs.file[TailPath].bytes,
                              hist.start[1] + 1, tail[1].offset))

\* C31: the worker's first offset is the file's length at the moment it
\* starts, or 0 where the file is absent then; and while the file has been
\* neither truncated nor replaced (and no Reset has moved the offset further
\* on), the lines emitted in the session are the
\* lines of the file's bytes beyond that first offset, up to the offset: no
\* byte the file held before the start is emitted, and a file that appears
\* after the start is emitted from its first byte.
C31_SessionStartsAtEnd ==
    /\ [][ starts_session =>
             /\ tail'[1].offset = IF fs.file[TailPath].exists
                                  THEN Len(fs.file[TailPath].bytes) ELSE 0
             /\ hist'.start[1] = tail'[1].offset
             /\ tail'[1].carry = <<>> ]_vars
    /\ []( ( /\ hist.grow_only[TailPath] /\ ~hist.reset[1]
              /\ tail[1].pc \notin {"none", "spawn"} )
             => /\ hist.start[1] <= tail[1].offset
                /\ tail[1].offset <= Len(fs.file[TailPath].bytes)
                /\ hist.sent[1] = since_start.lines
                /\ tail[1].carry = since_start.carry )

\* the worker started at the end of a file that held the beginning of a
\* line, the line was finished afterwards, and the worker has emitted what
\* was written after its start and nothing of what was there before
C31_Witness ==
    /\ hist.grow_only[TailPath] /\ ~hist.reset[1]
    /\ hist.start[1] = 1
    /\ fs.file[TailPath].bytes = <<97, 97, NL>>
    /\ tail[1].offset = 3
    /\ Len(hist.sent[1]) = 1
    /\ hist.sent[1][1].text = <<97>>

====
